---------------------------- MODULE Spec2Model ----------------------------
(***************************************************************************)
(* A model of the msd-seo-audit analysis-and-scoring pipeline:             *)
(*   - SEOScorer          (src/src/seo-scorer.js)                          *)
(*   - URLNormalizer      (src/src/url-normalizer.js)                      *)
(*   - SitemapAnalyzer    (src/src/sitemap-analyzer.js)                    *)
(*   - Actor.main crawl loop and calculateDomainAnalysis                   *)
(*                        (src/unnamed/part_003)                           *)
(*   - SEOAnalyzer.analyzeLinks (src/unnamed/part_003)                     *)
(* Each component has its own specification over the shared variables; the *)
(* variables of the components a specification does not run stay at their  *)
(* idle values.                                                            *)
(***************************************************************************)
EXTENDS Integers, Sequences, FiniteSets, TLC

VARIABLES
    \* ---- SEOScorer ----
    seoData,        \* the feature record handed to calculateScore
    edits,          \* how many fields of the base record the caller has set
    calls,          \* number of calculateScore calls made on seoData
    scoreResult,    \* the object returned by the latest call
    prevResult,     \* the object returned by the call before it
    scoreSteps,     \* the local `score` after each of the 8 sections, latest call
    \* ---- URLNormalizer ----
    rawUrl,         \* the string handed to the first normalize call
    normalized,     \* the strings returned by the successive normalize calls, each
                    \* call taking the previous call's result
    \* ---- SitemapAnalyzer: the web it talks to ----
    family,         \* which kind of site is analysed: "chain", "graph", "redirect"
    web,            \* sitemap URL -> the response a GET of it gets (Unknown until asked)
    headResp,       \* sitemap URL -> the response a HEAD of it gets (Unknown until asked)
    \* ---- SitemapAnalyzer.analyzeDomainSitemaps ----
    smPc,           \* where analyzeDomainSitemaps is: the request it awaits, or "done"
    smResults,      \* the results object
    currentUrl,     \* followRedirects: currentUrl, then finalSitemapUrl
    redirectCount,  \* followRedirects: redirectCount
    stack,          \* the countTotalUrlsInSitemaps calls in progress, innermost last
    visitedUrls,    \* the visitedUrls set of the walk in progress
    robotsLeft,     \* robots.txt fallback: the sitemap URLs still to walk
    totalUrlsCount, \* robots.txt fallback: totalUrlsCount
    \* ---- what the collaborator saw ----
    heads,          \* number of HEAD requests sent
    gets,           \* sitemap URL -> number of GET requests sent for it in this run
    walkGets,       \* sitemap URL -> number of GET requests sent for it by the walk in progress
    \* ---- Actor.main ----
    input,          \* the actor input, defaults applied
    site,           \* page URL -> what a GET of it gets
    mainPc,         \* where Actor.main is: the request it awaits, "done" or "failed"
    results,        \* the page results pushed so far
    visitedPages,   \* the visitedUrls set of the crawl loop
    urlsToProcess,  \* the crawl queue
    processedCount, \* processedCount
    pageUrl,        \* the crawl loop's currentUrl, its GET awaited
    domainAnalysis, \* what calculateDomainAnalysis returned
    \* ---- SEOAnalyzer.analyzeLinks ----
    anchors,        \* the href attributes of the page's a[href] elements, in order
    baseUrl,        \* the URL the page is analysed under
    brokenHosts,    \* the hosts whose links answer a HEAD with 404
    linksAnalysis,  \* what analyzeLinks returned
    \* ---- SEOAnalyzer.analyzePage ----
    docTitle,       \* the words of the page's title, <<>> when it has none
    docHeadings,    \* the page's h1..h6 elements, in document order
    docImages,      \* the page's img elements, in document order
    pageArgs,       \* includeImages and maxImagesPerPage of the analyzePage call
    pageData,       \* what analyzePage returned
    \* ---- SEOAnalyzer.checkLinkStatuses, step by step ----
    probeLinks,     \* the `links` array of the call
    batchStart,     \* the loop variable i: the index the current batch starts at
    inFlight,       \* the positions of the links whose HEAD request is pending
    probePc         \* where the call is: "idle", "all" (awaiting Promise.all),
                    \* "delay" (awaiting the 100 ms timer) or "done"

scorerVars == <<seoData, edits, calls, scoreResult, prevResult, scoreSteps>>
urlVars == <<rawUrl, normalized>>
sitemapVars == <<family, web, headResp, smPc, smResults, currentUrl, redirectCount,
                 stack, visitedUrls, robotsLeft, totalUrlsCount, heads, gets, walkGets>>

mainVars == <<input, site, mainPc, results, visitedPages, urlsToProcess, processedCount,
              pageUrl, domainAnalysis>>

linkVars == <<anchors, baseUrl, brokenHosts, linksAnalysis>>

pageVars == <<docTitle, docHeadings, docImages, pageArgs, pageData>>

probeVars == <<probeLinks, batchStart, inFlight, probePc>>

vars == <<scorerVars, urlVars, sitemapVars, mainVars, linkVars, pageVars, probeVars>>

\* The variables of the other components, which the scorer leaves alone.
notScorer == <<urlVars, sitemapVars, mainVars, linkVars, pageVars, probeVars>>
\* The variables of the other components, which the normalizer leaves alone.
notUrl == <<scorerVars, sitemapVars, mainVars, linkVars, pageVars, probeVars>>
\* The variables of the other components, which the sitemap analyzer leaves alone.
notSitemap == <<scorerVars, urlVars, mainVars, linkVars, pageVars, probeVars>>
\* The variables of the components Actor.main does not drive.
notMain == <<scorerVars, urlVars, linkVars, pageVars, probeVars>>
\* The variables of the other components, which the link classifier leaves alone.
notLinks == <<scorerVars, urlVars, sitemapVars, mainVars, pageVars, probeVars>>
\* The variables of the other components, which analyzePage leaves alone.
notPage == <<scorerVars, urlVars, sitemapVars, mainVars, linkVars, probeVars>>
\* The variables of the other components, which checkLinkStatuses leaves alone.
notProbes == <<scorerVars, urlVars, sitemapVars, mainVars, linkVars, pageVars>>

-----------------------------------------------------------------------------
(* Generic helpers                                                         *)

Min(a, b) == IF a < b THEN a ELSE b
Max(a, b) == IF a > b THEN a ELSE b

\* JavaScript `a || b` on numbers: 0 (and an absent field, read as 0) is falsy.
OrNum(a, b) == IF a # 0 THEN a ELSE b

\* An optional property: <<>> when the property is undefined, <<v>> otherwise.
Undefined == <<>>
Some(v) == <<v>>

RECURSIVE Join(_, _)
\* Array.prototype.join
Join(seq, sep) ==
    IF Len(seq) = 0 THEN ""
    ELSE IF Len(seq) = 1 THEN seq[1]
    ELSE seq[1] \o sep \o Join(Tail(seq), sep)

-----------------------------------------------------------------------------
(* SEOScorer (src/src/seo-scorer.js)                                       *)
(*                                                                         *)
(* Strings whose content the scorer never reads (title, description) are   *)
(* represented by their length; 0 is the empty or missing string.  The     *)
(* robots strings are sequences of directive tokens.                       *)

\* The lower-case form of a robots directive token.
ToLowerCase(tok) ==
    CASE tok = "NOINDEX"  -> "noindex"
      [] tok = "NoFollow" -> "nofollow"
      [] OTHER            -> tok

\* str.toLowerCase().includes(word) on a directive list
IncludesLower(str, word) == \E i \in 1..Len(str) : ToLowerCase(str[i]) = word

\* score -= pts; issues.push(label)
Penalize(acc, pts, label) ==
    [score |-> acc.score - pts, issues |-> Append(acc.issues, label)]

Bonus(acc, pts) == [acc EXCEPT !.score = @ + pts]

\* let score = 100
ScoreStart == 100

\* The issue list kept on the scorer between calls instead of created per call.
IssuesStartKept == IF calls > 0 THEN scoreResult.issues ELSE <<>>

\* const issues = []
IssuesStart == <<>>

\* 1. TITLE OPTIMIZATION
TitleSection(acc, d) ==
    LET title == d.title
        titleLength == OrNum(d.titleLength, OrNum(title, 0))
    IN  IF title = 0 \/ titleLength < 10 THEN Penalize(acc, 15, "missing/short title")
        ELSE IF titleLength > 60 THEN Penalize(acc, 8, "title too long")
        ELSE IF titleLength < 30 THEN Penalize(acc, 5, "title could be longer")
        ELSE acc

\* 2. META DESCRIPTION
DescriptionSection(acc, d) ==
    LET description == d.description
        descLength == OrNum(d.descriptionLength, OrNum(description, 0))
    IN  IF description = 0 \/ descLength < 120
            THEN Penalize(acc, 12, "missing/short meta description")
        ELSE IF descLength > 160 THEN Penalize(acc, 6, "meta description too long")
        ELSE acc

\* As if the heading score were scaled with Math.round.
HeadingContributionRounded(headingScore) == ((headingScore * 2 + 5) \div 10) - 20

\* Math.floor(headingScore * 0.2) - 20, for an integer headingScore >= 0
HeadingContribution(headingScore) == (headingScore \div 5) - 20

\* 3. HEADING STRUCTURE
HeadingSection(acc, d) ==
    IF d.headingScore # Undefined
    THEN LET headingScore == d.headingScore[1]
             a1 == Bonus(acc, HeadingContribution(headingScore))
         IN  IF headingScore < 50
             THEN [a1 EXCEPT !.issues = Append(@, "poor heading structure")]
             ELSE a1
    ELSE LET h1Count == OrNum(d.h1Count, d.h1)
             h2Count == d.h2Count
             h3Count == d.h3Count
             a1 == IF h1Count = 0 THEN Penalize(acc, 18, "missing H1")
                   ELSE IF h1Count > 1 THEN Penalize(acc, 12, "multiple H1 tags")
                   ELSE acc
             a2 == IF h1Count = 1 /\ h2Count > 0 THEN Bonus(a1, 2) ELSE a1
         IN  IF h2Count > 0 /\ h3Count > 0 THEN Bonus(a2, 1) ELSE a2

\* 4. TECHNICAL SEO
TechnicalSection(acc, d) ==
    LET xRobots == d.xRobots
        metaRobots == d.metaRobots
        a1 == IF ~d.hasHttps THEN Penalize(acc, 10, "no HTTPS") ELSE acc
        a2 == IF IncludesLower(xRobots, "noindex") \/ IncludesLower(metaRobots, "noindex")
              THEN Penalize(a1, 15, "page set to noindex") ELSE a1
        a3 == IF IncludesLower(xRobots, "nofollow") \/ IncludesLower(metaRobots, "nofollow")
              THEN Penalize(a2, 5, "page set to nofollow") ELSE a2
        a4 == IF ~d.favicon THEN Penalize(a3, 3, "no favicon") ELSE a3
        a5 == IF ~d.hasOpenGraph THEN Penalize(a4, 4, "no OpenGraph") ELSE a4
    IN  IF ~d.viewport THEN Penalize(a5, 3, "no viewport meta") ELSE a5

\* const words = Number(seoData.wordcountcontentonly || seoData.words || 0)
ScorerWords(d) == OrNum(d.wordcountcontentonly, OrNum(d.words, 0))

\* 5. CONTENT QUALITY
ContentSection(acc, d) ==
    LET words == ScorerWords(d)
        a1 == IF words < 150 THEN Penalize(acc, 8, "very low word count")
              ELSE IF words < 300 THEN Penalize(acc, 5, "low word count")
              ELSE IF words >= 800 THEN Bonus(acc, 2)
              ELSE acc
        strongTags == d.strongTags
    IN  IF strongTags = 0 /\ words > 200 THEN Penalize(a1, 2, "no emphasis tags") ELSE a1

\* The image section without the cap of 5 points.
ImagesSectionUncapped(acc, d) ==
    IF d.imagesWithoutAlt > 0
    THEN Penalize(acc, d.imagesWithoutAlt,
                  ToString(d.imagesWithoutAlt) \o " images without alt text")
    ELSE acc

\* 6. IMAGES OPTIMIZATION
ImagesSection(acc, d) ==
    LET imagesWithoutAlt == d.imagesWithoutAlt
    IN  IF imagesWithoutAlt > 0
        THEN LET imageIssueScore == Min(5, imagesWithoutAlt)
             IN  Penalize(acc, imageIssueScore,
                          ToString(imagesWithoutAlt) \o " images without alt text")
        ELSE acc

\* 7. ADVANCED BONUSES
BonusSection(acc, d) ==
    LET b1 == IF d.hasSchema \/ d.hasJsonLd THEN 2 ELSE 0
        b2 == IF d.canonicalUrl THEN 1 ELSE 0
        b3 == IF d.hasHreflang THEN 1 ELSE 0
        b4 == IF d.appleTouchIcon THEN 1 ELSE 0
    IN  Bonus(acc, b1 + b2 + b3 + b4)

\* 8. PERFORMANCE PENALTIES
PerformanceSection(acc, d) ==
    LET jsFiles == d.javascriptFiles
        cssFiles == d.cssFiles
        a1 == IF jsFiles > 20 THEN Penalize(acc, 3, "too many JS files") ELSE acc
    IN  IF cssFiles > 10 THEN Penalize(a1, 2, "too many CSS files") ELSE a1

\* Math.max(0, Math.min(100, Math.round(score))): score is an integer here,
\* so Math.round leaves it as it is.
FinalScore(score) == Max(0, Min(100, score))

\* The grade with strict comparisons at the thresholds.
getGradeStrict(score) ==
    IF score > 90 THEN "A"
    ELSE IF score > 80 THEN "B"
    ELSE IF score > 70 THEN "C"
    ELSE IF score > 60 THEN "D"
    ELSE "F"

getGrade(score) ==
    IF score >= 90 THEN "A"
    ELSE IF score >= 80 THEN "B"
    ELSE IF score >= 70 THEN "C"
    ELSE IF score >= 60 THEN "D"
    ELSE "F"

\* The category with the D grade's threshold in place of 50.
getCategoryAt60(score) ==
    IF score >= 85 THEN "Excellent"
    ELSE IF score >= 70 THEN "Good"
    ELSE IF score >= 60 THEN "Needs Improvement"
    ELSE "Poor"

getCategory(score) ==
    IF score >= 85 THEN "Excellent"
    ELSE IF score >= 70 THEN "Good"
    ELSE IF score >= 50 THEN "Needs Improvement"
    ELSE "Poor"

generateSeoNotes(d, issues) ==
    LET p1 == IF d.hasHttps THEN <<"HTTPS enabled">> ELSE <<>>
        p2 == IF d.hasOpenGraph THEN <<"OpenGraph present">> ELSE <<>>
        p3 == IF d.words >= 500 THEN <<"good content length">> ELSE <<>>
        p4 == IF d.h1Count = 1 THEN <<"proper H1 structure">> ELSE <<>>
        positives == p1 \o p2 \o p3 \o p4
        result == IF Len(issues) > 0 THEN "Issues: " \o Join(issues, ", ") ELSE ""
    IN  IF Len(positives) = 0 THEN result
        \* .replace(/^\s*\|\s*/, '') removes the separator that leads the string
        ELSE IF result = "" THEN "Strengths: " \o Join(positives, ", ")
        ELSE result \o " | Strengths: " \o Join(positives, ", ")

\* The accumulator (score, issues) after each of the 8 sections, in code order.
ScoreSections(d) ==
    LET a0 == [score |-> ScoreStart, issues |-> IssuesStart]
        a1 == TitleSection(a0, d)
        a2 == DescriptionSection(a1, d)
        a3 == HeadingSection(a2, d)
        a4 == TechnicalSection(a3, d)
        a5 == ContentSection(a4, d)
        a6 == ImagesSection(a5, d)
        a7 == BonusSection(a6, d)
        a8 == PerformanceSection(a7, d)
    IN  <<a1, a2, a3, a4, a5, a6, a7, a8>>

calculateScore(d) ==
    LET acc == ScoreSections(d)[8]
        finalScore == FinalScore(acc.score)
    IN  [seo_page_score   |-> finalScore,
         seo_grade        |-> getGrade(finalScore),
         seo_category     |-> getCategory(finalScore),
         seo_issues_count |-> Len(acc.issues),
         notes            |-> generateSeoNotes(d, acc.issues),
         issues           |-> acc.issues]

-----------------------------------------------------------------------------
(* URLNormalizer (src/src/url-normalizer.js)                               *)
(*                                                                         *)
(* A string is the record of its parts as the URL parser delimits them:    *)
(* scheme "://" host path ["?" query] ["#" hash], with pad = TRUE when it   *)
(* carries leading or trailing white space.  host, path, query and hash    *)
(* are sequences of characters; in a query the escapes %20, %75 and %3D    *)
(* are single characters of the sequence.  A string with no scheme is not  *)
(* parseable.                                                              *)

EmptyString ==
    [scheme |-> "", host |-> <<>>, path |-> <<>>, query |-> Undefined,
     hash |-> Undefined, pad |-> FALSE]

\* String.prototype.toLowerCase, per character
LowerChar(c) ==
    CASE c = "A" -> "a"
      [] c = "C" -> "c"
      [] c = "K" -> "k"
      [] c = "U" -> "u"
      [] c = "T" -> "t"
      [] c = "M" -> "m"
      [] OTHER   -> c

Lower(str) == [i \in 1..Len(str) |-> LowerChar(str[i])]

RECURSIVE Split(_, _)
\* String.prototype.split(sep): the pieces between the separators
Split(str, sep) ==
    IF \A i \in 1..Len(str) : str[i] # sep THEN <<str>>
    ELSE LET k == CHOOSE i \in 1..Len(str) :
                      str[i] = sep /\ \A j \in 1..(i - 1) : str[j] # sep
         IN  <<SubSeq(str, 1, k - 1)>> \o Split(SubSeq(str, k + 1, Len(str)), sep)

RECURSIVE Flatten(_)
\* the concatenation of a sequence of strings
Flatten(strs) == IF strs = <<>> THEN <<>> ELSE Head(strs) \o Flatten(Tail(strs))

RECURSIVE PathSegments(_, _)
\* The URL parser's path state over the "/"-separated pieces: ".." removes the
\* last segment, "." adds none, and either of them as the last piece leaves an
\* empty last segment.
PathSegments(pieces, acc) ==
    IF pieces = <<>> THEN acc
    ELSE LET seg == Head(pieces)
             last == Len(pieces) = 1
             popped == IF acc = <<>> THEN acc ELSE SubSeq(acc, 1, Len(acc) - 1)
         IN  IF seg = <<".", ".">>
                 THEN PathSegments(Tail(pieces), IF last THEN Append(popped, <<>>) ELSE popped)
             ELSE IF seg = <<".">>
                 THEN PathSegments(Tail(pieces), IF last THEN Append(acc, <<>>) ELSE acc)
             ELSE PathSegments(Tail(pieces), Append(acc, seg))

\* The pathname the URL parser gives a path string (new URL, and the pathname
\* setter): each segment preceded by "/".
ParsePath(str) ==
    LET rest == IF str # <<>> /\ str[1] = "/" THEN Tail(str) ELSE str
        segs == PathSegments(Split(rest, "/"), <<>>)
    IN  Flatten([i \in 1..Len(segs) |-> <<"/">> \o segs[i]])

\* new URL(str): the URL object, or Undefined when the parser throws.
ParseUrl(str) ==
    IF str.scheme = "" THEN Undefined
    ELSE Some([protocol |-> str.scheme,
               hostname |-> Lower(str.host),
               pathname |-> ParsePath(str.path),
               query    |-> str.query,
               fragment |-> str.hash])

\* url.toString()
SerializeUrl(url) ==
    [scheme |-> url.protocol, host |-> url.hostname, path |-> url.pathname,
     query |-> url.query, hash |-> url.fragment, pad |-> FALSE]

\* percent-decoding and "+" as a space, per character of a query string
DecodeChar(c) ==
    CASE c = "+"   -> " "
      [] c = "%20" -> " "
      [] c = "%75" -> "u"
      [] c = "%3D" -> "="
      [] OTHER     -> c

\* the application/x-www-form-urlencoded byte serializer, per character
EncodeChar(c) ==
    CASE c = " " -> "+"
      [] c = "=" -> "%3D"
      [] OTHER   -> c

Decode(str) == [i \in 1..Len(str) |-> DecodeChar(str[i])]
Encode(str) == [i \in 1..Len(str) |-> EncodeChar(str[i])]

\* One "name=value" piece of a query as its decoded [key, value] entry.
ParsePair(piece) ==
    LET parts == Split(piece, "=")
        name == Head(parts)
        value == IF Len(parts) = 1 THEN <<>>
                 ELSE SubSeq(piece, Len(name) + 2, Len(piece))
    IN  <<Decode(name), Decode(value)>>

\* url.searchParams.entries(): the decoded [key, value] entries of the query.
SearchParamsEntries(query) ==
    IF query = Undefined THEN <<>>
    ELSE LET pieces == SelectSeq(Split(query[1], "&"), LAMBDA p : p # <<>>)
         IN  [i \in 1..Len(pieces) |-> ParsePair(pieces[i])]

RECURSIVE JoinPairs(_)
\* new URLSearchParams(params).toString()
JoinPairs(params) ==
    IF params = <<>> THEN <<>>
    ELSE LET one == Encode(params[1][1]) \o <<"=">> \o Encode(params[1][2])
         IN  IF Len(params) = 1 THEN one ELSE one \o <<"&">> \o JoinPairs(Tail(params))

\* The test without the i flag: /^utm_/.test(key)
IsUtmKeyCaseSensitive(key) ==
    /\ Len(key) >= 4
    /\ SubSeq(key, 1, 4) = <<"u", "t", "m", "_">>

\* /^utm_/i.test(key)
IsUtmKey(key) ==
    /\ Len(key) >= 4
    /\ Lower(SubSeq(key, 1, 4)) = <<"u", "t", "m", "_">>

\* url.search = params.length ? new URLSearchParams(params).toString() : ''
RemoveUtm(query) ==
    LET params == SelectSeq(SearchParamsEntries(query), LAMBDA e : ~IsUtmKey(e[1]))
    IN  IF Len(params) > 0 THEN Some(JoinPairs(params)) ELSE Undefined

RECURSIVE CollapseSlashes(_)
\* pathname.replace(/\/+/g, '/')
CollapseSlashes(str) ==
    IF Len(str) < 2 THEN str
    ELSE IF str[1] = "/" /\ str[2] = "/" THEN CollapseSlashes(Tail(str))
    ELSE <<str[1]>> \o CollapseSlashes(Tail(str))

EndsWithSlash(str) == Len(str) > 0 /\ str[Len(str)] = "/"

\* The trailing separator stripped before the repeated ones are collapsed.
NormalizePathnameStripFirst(pathname) ==
    LET p1 == IF pathname # <<"/">> /\ EndsWithSlash(pathname)
              THEN ParsePath(SubSeq(pathname, 1, Len(pathname) - 1)) ELSE pathname
    IN  ParsePath(CollapseSlashes(p1))

\* url.pathname = url.pathname.replace(/\/+/g, '/');
\* if (url.pathname !== '/' && url.pathname.endsWith('/')) url.pathname = url.pathname.slice(0, -1)
NormalizePathname(pathname) ==
    LET p1 == ParsePath(CollapseSlashes(pathname))
    IN  IF p1 # <<"/">> /\ EndsWithSlash(p1)
        THEN ParsePath(SubSeq(p1, 1, Len(p1) - 1)) ELSE p1

RECURSIVE StripTrailingSlashes(_)
\* str.replace(/\/+$/, '')
StripTrailingSlashes(str) ==
    IF EndsWithSlash(str) THEN StripTrailingSlashes(SubSeq(str, 1, Len(str) - 1)) ELSE str

\* The catch branch: String(rawUrl || '').trim().replace(/\/+$/, '') lower-cased.
\* The string ends with its path when it has no query and no hash.
NormalizeFallback(str) ==
    LET path == IF str.query = Undefined /\ str.hash = Undefined
                THEN StripTrailingSlashes(str.path) ELSE str.path
    IN  [scheme |-> str.scheme, host |-> Lower(str.host), path |-> Lower(path),
         query |-> IF str.query = Undefined THEN Undefined ELSE Some(Lower(str.query[1])),
         hash |-> IF str.hash = Undefined THEN Undefined ELSE Some(Lower(str.hash[1])),
         pad |-> FALSE]

\* URLNormalizer.normalize(rawUrl)
normalize(str) ==
    IF str = EmptyString THEN EmptyString
    ELSE LET parsed == ParseUrl([str EXCEPT !.pad = FALSE])
         IN  IF parsed = Undefined THEN NormalizeFallback(str)
             ELSE LET url == parsed[1]
                  IN  SerializeUrl([protocol |-> url.protocol,
                                    hostname |-> Lower(url.hostname),
                                    pathname |-> NormalizePathname(url.pathname),
                                    query    |-> RemoveUtm(url.query),
                                    fragment |-> Undefined])

-----------------------------------------------------------------------------
(* SitemapAnalyzer (src/src/sitemap-analyzer.js)                           *)
(*                                                                         *)
(* Sitemap URLs are numbers; 1 is `${domainUrl}/sitemap.xml`.  A document  *)
(* is the sequence of its opening tags, a <loc> carrying the URL it names. *)
(* A response is what axios hands back (status, content type, data) or a   *)
(* thrown error.                                                           *)

\* maxDepth = 10
MaxDepth == 10
\* maxRedirects = 5
MaxRedirects == 5

Unknown == [kind |-> "unknown"]

Tag(name) == [name |-> name, loc |-> 0]
Loc(url) == [name |-> "loc", loc |-> url]

RECURSIVE Repeat(_, _)
Repeat(str, n) == IF n = 0 THEN <<>> ELSE str \o Repeat(str, n - 1)

\* A urlset document with n <url> entries.
UrlsetContent(n) == <<Tag("urlset")>> \o Repeat(<<Tag("url"), Loc(0), Tag("lastmod")>>, n)

\* A sitemap index document naming the sitemaps locs.
IndexContent(locs) ==
    <<Tag("sitemapindex")>> \o Flatten([i \in 1..Len(locs) |-> <<Tag("sitemap"), Loc(locs[i])>>])

Response(status, contentType, content) ==
    [kind |-> "response", status |-> status, contentType |-> contentType, content |-> content]

\* axios rejects: a transport error, or a status outside 2xx.
Failure == [kind |-> "error", status |-> 0, contentType |-> "", content |-> <<>>]

\* content.includes('<sitemapindex') || ... || content.includes('sitemapindex')
IsIndexContent(content) == \E i \in 1..Len(content) : content[i].name = "sitemapindex"

\* content.includes('<urlset') || ... || content.includes('urlset')
IsUrlsetContent(content) == \E i \in 1..Len(content) : content[i].name = "urlset"

\* contentType.includes('xml') || contentType.includes('text')
IsXmlOrText(contentType) == contentType \in {"application/xml", "text/xml", "text/html"}

\* An opening tag the regex /<prefix[^>]*>/ matches: its name starts with prefix.
OpensWith(tag, prefix) ==
    CASE prefix = "sitemap" -> tag.name \in {"sitemap", "sitemapindex"}
      [] prefix = "url"     -> tag.name \in {"url", "urlset"}
      [] OTHER              -> tag.name = prefix

\* xmlContent.match(/<sitemap[^>]*>/gi).length
countSitemapsInIndex(content) ==
    Cardinality({i \in 1..Len(content) : OpensWith(content[i], "sitemap")})

\* xmlContent.match(/<url[^>]*>/gi).length
countUrlsInSitemap(content) ==
    Cardinality({i \in 1..Len(content) : OpensWith(content[i], "url")})

\* every <loc>...</loc> of the document, in order
extractSitemapUrlsFromIndex(content) ==
    LET locs == SelectSeq(content, LAMBDA t : t.name = "loc")
    IN  [i \in 1..Len(locs) |-> locs[i].loc]

extractUrlsFromSitemap(content) == extractSitemapUrlsFromIndex(content)

\* the first <lastmod> of the document, or null
getLastModifiedFromSitemap(content) ==
    IF \E i \in 1..Len(content) : content[i].name = "lastmod" THEN "lastmod" ELSE "null"

\* The "sitemap:" lines of a robots.txt that name an absolute URL; a relative
\* one makes new URL('/', path) throw and is skipped.
extractSitemapsFromRobots(lines) ==
    LET abs == SelectSeq(lines, LAMBDA l : l.absolute)
    IN  [i \in 1..Len(abs) |-> abs[i].url]

\* Without the visited set: only the depth stops the walk.
CutOffDepthOnly(maxDepth, sitemapUrl, visited) == maxDepth <= 0

\* Without the depth bound: only the visited set stops the walk.
CutOffVisitedOnly(maxDepth, sitemapUrl, visited) == sitemapUrl \in visited

\* if (maxDepth <= 0 || visitedUrls.has(sitemapUrl)) return 0
CutOff(maxDepth, sitemapUrl, visited) == maxDepth <= 0 \/ sitemapUrl \in visited

\* A countTotalUrlsInSitemaps call: locs are the nested sitemaps its loop has
\* still to visit, totalUrls its local total.
Frame(url, maxDepth) == [url |-> url, maxDepth |-> maxDepth, locs |-> <<>>, totalUrls |-> 0]

\* The calls there can be.
Frames == [url : Int, maxDepth : Int, locs : Seq(Int), totalUrls : Int]

Pop(stk) == SubSeq(stk, 1, Len(stk) - 1)

\* The code that runs from the point where the innermost call has its document
\* (or a nested call has returned) to the next request: the loop over the
\* nested sitemaps skips every one that is cut off, stops at the first that is
\* not (it is marked visited and its GET is awaited), and a call whose loop is
\* over returns its total to its caller.  A walk that has returned leaves an
\* empty stack and its result in value.
Continue[stk \in Seq(Frames), visited \in SUBSET Int] ==
    LET top == stk[Len(stk)]
    IN  IF top.locs = <<>>
        THEN IF Len(stk) = 1
             THEN [stack |-> <<>>, visited |-> visited, value |-> top.totalUrls]
             ELSE LET caller == stk[Len(stk) - 1]
                  IN  Continue[Append(Pop(Pop(stk)),
                                      [caller EXCEPT !.totalUrls = @ + top.totalUrls]),
                               visited]
        ELSE LET nested == Head(top.locs)
                 rest == Append(Pop(stk), [top EXCEPT !.locs = Tail(@)])
             IN  IF CutOff(top.maxDepth - 1, nested, visited)
                 THEN Continue[rest, visited]
                 ELSE [stack |-> Append(rest, Frame(nested, top.maxDepth - 1)),
                       visited |-> visited \cup {nested}, value |-> 0]

\* As if a rejected GET were not swallowed as 0: the call it belongs to
\* returns a count of its own.
FetchedFailureCounted(frame, r) ==
    IF r.kind = "error"
    THEN [frame EXCEPT !.totalUrls = 1]
    ELSE IF r.status = 200 /\ IsXmlOrText(r.contentType)
    THEN IF IsIndexContent(r.content)
         THEN [frame EXCEPT !.locs = extractSitemapUrlsFromIndex(r.content)]
         ELSE IF IsUrlsetContent(r.content)
         THEN [frame EXCEPT !.totalUrls = countUrlsInSitemap(r.content)]
         ELSE frame
    ELSE frame

\* The innermost call once its GET has settled with response r.
Fetched(frame, r) ==
    IF r.kind = "response" /\ r.status = 200 /\ IsXmlOrText(r.contentType)
    THEN IF IsIndexContent(r.content)
         THEN [frame EXCEPT !.locs = extractSitemapUrlsFromIndex(r.content)]
         ELSE IF IsUrlsetContent(r.content)
         THEN [frame EXCEPT !.totalUrls = countUrlsInSitemap(r.content)]
         ELSE frame
    ELSE frame

\* The results object analyzeDomainSitemaps starts from.
InitialResults ==
    [sitemapUrl |-> 0, hasSitemap |-> FALSE, sitemapType |-> "null", sitemapSize |-> 0,
     sitemapLastModified |-> "null", sitemapUrls |-> <<>>, totalUrls |-> 0, error |-> "null"]

\* error.message of a rejected request
Message == "Request failed"

\* `${error.message}; robots.txt: ${robotsError.message}`
RobotsMessage == Message \o "; robots.txt: " \o Message

\* `${domainUrl}/sitemap.xml`
InitialSitemapUrl == 1

\* HEAD responses: a 2xx, a 301/302/307/308 with or without a location header
\* (to = 0: none), anything else axios rejects.
HeadOk == [kind |-> "ok", to |-> 0]
HeadRedirect(to) == [kind |-> "redirect", to |-> to]
HeadError == [kind |-> "error", to |-> 0]

\* As if the loop tested redirectCount <= maxRedirects: one more redirect is
\* followed.
followRedirectsOneMore(url, count, r) ==
    IF r.kind = "redirect" /\ r.to # 0
    THEN [currentUrl |-> r.to, redirectCount |-> count + 1,
          returned |-> ~(count + 1 <= MaxRedirects)]
    ELSE [currentUrl |-> url, redirectCount |-> count, returned |-> TRUE]

\* One iteration of the followRedirects loop, from the settled HEAD to the next
\* HEAD or to the return: returned tells which.
followRedirects(url, count, r) ==
    IF r.kind = "redirect" /\ r.to # 0
    THEN [currentUrl |-> r.to, redirectCount |-> count + 1,
          returned |-> ~(count + 1 < MaxRedirects)]
    ELSE [currentUrl |-> url, redirectCount |-> count, returned |-> TRUE]

\* The robots.txt loop from the point where totalUrlsCount is count and the
\* sitemaps left are still to be walked, to the next request or to the end of
\* the loop: each walk starts from a new visitedUrls set and the default depth.
RECURSIVE RobotsLoop(_, _)
RobotsLoop(left, count) ==
    IF left = <<>>
    THEN [left |-> <<>>, count |-> count, stack |-> <<>>, visited |-> {}]
    ELSE IF CutOff(MaxDepth, Head(left), {})
    THEN RobotsLoop(Tail(left), count)
    ELSE [left |-> Tail(left), count |-> count,
          stack |-> <<Frame(Head(left), MaxDepth)>>, visited |-> {Head(left)}]

-----------------------------------------------------------------------------
(* Strings handed to the normalizer                                        *)

\* The longest path string, in characters, of the enumerated inputs.
MaxPathLen == 3
\* The largest number of "&"-separated pieces in a query of the inputs.
MaxParams == 2
\* How many times normalize is applied in a row.
MaxNormalize == 2

Hosts == {<<"a", ".", "c">>, <<"A", ".", "C">>}

PathChars == {"/", "a", "."}

\* The path strings of up to n characters: empty, or starting with "/".
Paths(n) ==
    {<<>>} \cup UNION {{p \in [1..k -> PathChars] : p[1] = "/"} : k \in 1..n}

LongPaths == {<<"/", "a", "/", "/", "a", "/", "/">>,
              <<"/", "a", "/", ".", ".", "/", "a", "/">>}

\* The pieces a query is made of: utm_s=x, UTM_m=1, k=1, utm=1, k, k=x+%20,
\* %75tm_c=1, k=1=2.
RawPairs ==
    {<<"u", "t", "m", "_", "s", "=", "x">>,
     <<"U", "T", "M", "_", "m", "=", "1">>,
     <<"k", "=", "1">>,
     <<"u", "t", "m", "=", "1">>,
     <<"k">>,
     <<"K", "=", "x", "+", "%20">>,
     <<"%75", "t", "m", "_", "c", "=", "1">>,
     <<"k", "=", "1", "=", "2">>}

RECURSIVE JoinAmp(_)
JoinAmp(pieces) ==
    IF pieces = <<>> THEN <<>>
    ELSE IF Len(pieces) = 1 THEN pieces[1]
    ELSE pieces[1] \o <<"&">> \o JoinAmp(Tail(pieces))

\* No query, or the pieces of up to n of RawPairs joined by "&".
Queries(n) ==
    {Undefined} \cup {Some(JoinAmp(ps)) : ps \in UNION {[1..k -> RawPairs] : k \in 0..n}}

Hashes == {Undefined, Some(<<"S", "/">>)}

ParseableUrls ==
    [scheme : {"https"}, host : Hosts, path : Paths(MaxPathLen) \cup LongPaths,
     query : Queries(MaxParams), hash : Hashes, pad : {FALSE}]

\* The empty string, strings with no scheme (not parseable), a padded URL and a
\* query with empty pieces.
OtherStrings ==
    {EmptyString,
     [EmptyString EXCEPT !.host = <<"A", ".", "C">>, !.path = <<"/", "A", "/", "/">>],
     [EmptyString EXCEPT !.host = <<"a", ".", "c">>, !.path = <<"/">>,
                         !.query = Some(<<"U", "T", "M", "_", "m", "=", "1">>)],
     [scheme |-> "https", host |-> <<"A", ".", "c">>, path |-> <<"/", "a", "/">>,
      query |-> Undefined, hash |-> Undefined, pad |-> TRUE],
     [scheme |-> "https", host |-> <<"a", ".", "c">>, path |-> <<"/">>,
      query |-> Some(<<"&", "&", "k", "=", "1", "&", "&", "u", "t", "m", "_", "=", "&">>),
      hash |-> Undefined, pad |-> FALSE]}

RawUrls == ParseableUrls \cup OtherStrings

UrlInit ==
    /\ rawUrl \in RawUrls
    /\ normalized = <<>>

UrlIdle ==
    /\ rawUrl = EmptyString
    /\ normalized = <<>>

\* One call of URLNormalizer.normalize, on rawUrl or on the previous result.
Normalize ==
    /\ Len(normalized) < MaxNormalize
    /\ LET arg == IF normalized = <<>> THEN rawUrl ELSE normalized[Len(normalized)]
       IN  normalized' = Append(normalized, normalize(arg))
    /\ UNCHANGED <<rawUrl, notUrl>>

-----------------------------------------------------------------------------
(* Feature records handed to the scorer                                    *)

\* How many fields of a base record a caller may set before scoring.
MaxEdits == 2
\* How many times calculateScore is called on one record.
MaxCalls == 2
\* The largest number of images without alt text a record carries.
MaxImages == 10

\* A page with every signal present: no penalty, every bonus.
PerfectPage ==
    [title |-> 45, titleLength |-> 45, description |-> 140, descriptionLength |-> 140,
     headingScore |-> Undefined, h1Count |-> 1, h1 |-> 1, h2Count |-> 2, h3Count |-> 1,
     hasHttps |-> TRUE, xRobots |-> <<>>, metaRobots |-> <<>>,
     favicon |-> TRUE, hasOpenGraph |-> TRUE, viewport |-> TRUE,
     wordcountcontentonly |-> 900, words |-> 900, strongTags |-> 3,
     imagesWithoutAlt |-> 0, hasSchema |-> FALSE, hasJsonLd |-> TRUE,
     canonicalUrl |-> TRUE, hasHreflang |-> TRUE, appleTouchIcon |-> TRUE,
     javascriptFiles |-> 0, cssFiles |-> 0]

\* A page with no penalty and no bonus: raw score 100, precomputed heading score.
PlainPage ==
    [PerfectPage EXCEPT !.headingScore = Some(100), !.wordcountcontentonly = 500,
                        !.words = 500, !.hasJsonLd = FALSE, !.canonicalUrl = FALSE,
                        !.hasHreflang = FALSE, !.appleTouchIcon = FALSE]

\* The page of the end-to-end scenario: title length 5, no description, one H1,
\* HTTPS, no favicon, no OpenGraph, viewport, 100 content words, no images.
ScenarioPage ==
    [title |-> 5, titleLength |-> 5, description |-> 0, descriptionLength |-> 0,
     headingScore |-> Undefined, h1Count |-> 1, h1 |-> 1, h2Count |-> 0, h3Count |-> 0,
     hasHttps |-> TRUE, xRobots |-> <<>>, metaRobots |-> <<>>,
     favicon |-> FALSE, hasOpenGraph |-> FALSE, viewport |-> TRUE,
     wordcountcontentonly |-> 100, words |-> 100, strongTags |-> 0,
     imagesWithoutAlt |-> 0, hasSchema |-> FALSE, hasJsonLd |-> FALSE,
     canonicalUrl |-> FALSE, hasHreflang |-> FALSE, appleTouchIcon |-> FALSE,
     javascriptFiles |-> 0, cssFiles |-> 0]

\* A page on which every penalty applies.
WorstPage ==
    [ScenarioPage EXCEPT !.title = 0, !.titleLength = 0, !.headingScore = Some(0),
                         !.h1Count = 0, !.h1 = 0, !.hasHttps = FALSE,
                         !.xRobots = <<"NOINDEX">>, !.metaRobots = <<"noindex", "nofollow">>,
                         !.viewport = FALSE, !.wordcountcontentonly = 0, !.words = 0,
                         !.imagesWithoutAlt = MaxImages,
                         !.javascriptFiles = 21, !.cssFiles = 11]

BasePages == {PerfectPage, PlainPage, ScenarioPage, WorstPage}

FeatureNames == DOMAIN PerfectPage

RobotsValues == {<<>>, <<"NOINDEX">>, <<"index", "NoFollow">>, <<"noindex", "nofollow">>}

\* The values a caller may give a field.
FeatureValues(f) ==
    CASE f = "title"                -> {0, 45}
      [] f = "titleLength"          -> {0, 9, 10, 29, 30, 60, 61}
      [] f = "description"          -> {0, 140}
      [] f = "descriptionLength"    -> {0, 119, 120, 160, 161}
      [] f = "headingScore"         -> {Undefined} \cup {Some(h) : h \in {0, 45, 49, 50, 100}}
      [] f = "h1Count"              -> {0, 1, 2}
      [] f = "h1"                   -> {0, 2}
      [] f \in {"h2Count", "h3Count"} -> {0, 1}
      [] f \in {"xRobots", "metaRobots"} -> RobotsValues
      [] f = "wordcountcontentonly" -> {0, 149, 150, 250, 299, 300, 800}
      [] f = "words"                -> {0, 900}
      [] f = "strongTags"           -> {0, 3}
      [] f = "imagesWithoutAlt"     -> {0, 1, 4, 5, 6, MaxImages}
      [] f = "javascriptFiles"      -> {0, 21}
      [] f = "cssFiles"             -> {0, 11}
      [] OTHER                      -> BOOLEAN

NoResult == [seo_page_score |-> 0, seo_grade |-> "", seo_category |-> "",
             seo_issues_count |-> 0, notes |-> "", issues |-> <<>>]

ScorerInit ==
    /\ seoData \in BasePages
    /\ edits = 0
    /\ calls = 0
    /\ scoreResult = NoResult
    /\ prevResult = NoResult
    /\ scoreSteps = <<>>

ScorerIdle ==
    /\ seoData = PlainPage
    /\ edits = 0
    /\ calls = 0
    /\ scoreResult = NoResult
    /\ prevResult = NoResult
    /\ scoreSteps = <<>>


\* The caller fills in one field of the record before scoring it.
SetFeature ==
    /\ calls = 0
    /\ edits < MaxEdits
    /\ \E f \in FeatureNames : \E v \in FeatureValues(f) :
           /\ seoData[f] # v
           /\ seoData' = [seoData EXCEPT ![f] = v]
    /\ edits' = edits + 1
    /\ UNCHANGED <<calls, scoreResult, prevResult, scoreSteps, notScorer>>

\* One call of SEOScorer.calculateScore(seoData).
CalculateScore ==
    /\ calls < MaxCalls
    /\ calls' = calls + 1
    /\ prevResult' = scoreResult
    /\ scoreResult' = calculateScore(seoData)
    /\ scoreSteps' = [i \in 1..8 |-> ScoreSections(seoData)[i].score]
    /\ UNCHANGED <<seoData, edits, notScorer>>

-----------------------------------------------------------------------------
(* Sites handed to the sitemap analyzer                                    *)

\* depth of the deepest chain of nested sitemap indexes
ChainDepth == 15
\* most <url> entries of a urlset document
MaxUrls == 2

Urls == 1..ChainDepth
GraphUrls == 1..3

Xml(content) == Response(200, "application/xml", content)

\* A chain of indexes, each naming the next URL, that ends at URL len in a
\* urlset; nothing is served past it.
ChainWeb(len) ==
    [u \in Urls |-> IF u < len THEN Xml(IndexContent(<<u + 1>>))
                    ELSE IF u = len THEN Xml(UrlsetContent(MaxUrls))
                    ELSE Failure]

\* What an index of the small sites may name: itself, its parent, a sitemap
\* twice, a sitemap another index names too.
IndexLocs ==
    {<<>>, <<1>>, <<2>>, <<3>>, <<1, 2>>, <<2, 1>>, <<2, 3>>, <<3, 2>>, <<2, 2>>, <<3, 1>>}

GraphDocs ==
    {Failure,
     Response(204, "application/xml", <<>>),
     Response(200, "text/html", <<Tag("html")>>),
     Response(200, "application/json", UrlsetContent(1)),
     Xml(<<Tag("rss")>>)}
    \cup {Xml(UrlsetContent(n)) : n \in 0..MaxUrls}
    \cup {Xml(IndexContent(locs)) : locs \in IndexLocs}

HeadResponses == {HeadOk, HeadError, HeadRedirect(0), HeadRedirect(1), HeadRedirect(2)}

RobotsLine(absolute, url) == [absolute |-> absolute, url |-> url]

RobotsResponses ==
    {Failure, Response(204, "text/plain", <<>>)}
    \cup {Response(200, "text/plain", lines) :
            lines \in {<<>>, <<RobotsLine(FALSE, 2)>>, <<RobotsLine(TRUE, 2)>>,
                       <<RobotsLine(TRUE, 2), RobotsLine(TRUE, 3)>>,
                       <<RobotsLine(TRUE, 2), RobotsLine(TRUE, 2)>>,
                       <<RobotsLine(TRUE, 1), RobotsLine(TRUE, 2)>>}}

\* The responses a GET of url may get: the one it got before, if any.
GetResponses(url) == IF web[url] = Unknown THEN GraphDocs ELSE {web[url]}

\* The responses a HEAD of url may get: the one it got before, if any.
HeadResponsesOf(url) == IF headResp[url] = Unknown THEN HeadResponses ELSE {headResp[url]}

SitemapInit ==
    /\ family \in {"chain", "graph", "redirect"}
    /\ web \in CASE family = "chain"    -> {ChainWeb(len) : len \in 1..ChainDepth}
                 [] family = "graph"    -> {[u \in Urls |-> Unknown]}
                 [] family = "redirect" -> {[u \in Urls |-> Xml(UrlsetContent(1))]}
    /\ headResp = [u \in Urls |-> IF family = "redirect" THEN Unknown ELSE HeadOk]
    /\ smPc = "start"
    /\ smResults = InitialResults
    /\ currentUrl = 0
    /\ redirectCount = 0
    /\ stack = <<>>
    /\ visitedUrls = {}
    /\ robotsLeft = <<>>
    /\ totalUrlsCount = 0
    /\ heads = 0
    /\ gets = [u \in Urls |-> 0]
    /\ walkGets = [u \in Urls |-> 0]

\* The sitemap analyzer is not run.
SitemapIdle ==
    /\ family = "chain"
    /\ web = ChainWeb(1)
    /\ headResp = [u \in Urls |-> HeadOk]
    /\ smPc = "done"
    /\ smResults = InitialResults
    /\ currentUrl = 0
    /\ redirectCount = 0
    /\ stack = <<>>
    /\ visitedUrls = {}
    /\ robotsLeft = <<>>
    /\ totalUrlsCount = 0
    /\ heads = 0
    /\ gets = [u \in Urls |-> 0]
    /\ walkGets = [u \in Urls |-> 0]

\* analyzeDomainSitemaps up to its first request, the HEAD of /sitemap.xml.
AnalyzeDomainSitemaps ==
    /\ smPc = "start"
    /\ smResults' = [InitialResults EXCEPT !.sitemapUrl = InitialSitemapUrl]
    /\ currentUrl' = InitialSitemapUrl
    /\ redirectCount' = 0
    /\ smPc' = "head"
    /\ UNCHANGED <<family, web, headResp, stack, visitedUrls, robotsLeft, totalUrlsCount,
                   heads, gets, walkGets, notSitemap>>

\* A HEAD of followRedirects settles: the loop goes on to the next HEAD, or
\* returns and the GET of the final URL is sent.
HeadSettles ==
    /\ smPc = "head"
    /\ \E r \in HeadResponsesOf(currentUrl) :
         LET f == followRedirects(currentUrl, redirectCount, r)
         IN  /\ headResp' = [headResp EXCEPT ![currentUrl] = r]
             /\ heads' = heads + 1
             /\ currentUrl' = f.currentUrl
             /\ redirectCount' = f.redirectCount
             /\ smPc' = IF f.returned THEN "get" ELSE "head"
             /\ smResults' = IF f.returned
                             THEN [smResults EXCEPT !.sitemapUrl = f.currentUrl]
                             ELSE smResults
    /\ UNCHANGED <<family, web, stack, visitedUrls, robotsLeft, totalUrlsCount,
                   gets, walkGets, notSitemap>>

\* The results object after the try block has looked at the response to the
\* GET of the final URL (totalUrls of an index is filled in after its walk).
Classified(res, r) ==
    IF r.status = 200 /\ IsXmlOrText(r.contentType)
    THEN IF IsIndexContent(r.content)
         THEN [res EXCEPT !.hasSitemap = TRUE,
                              !.sitemapType = "sitemap_index",
                              !.sitemapSize = countSitemapsInIndex(r.content),
                              !.sitemapUrls = extractSitemapUrlsFromIndex(r.content)]
         ELSE IF IsUrlsetContent(r.content)
         THEN [res EXCEPT !.hasSitemap = TRUE,
                              !.sitemapType = "urlset",
                              !.sitemapSize = countUrlsInSitemap(r.content),
                              !.sitemapUrls = extractUrlsFromSitemap(r.content),
                              !.sitemapLastModified = getLastModifiedFromSitemap(r.content),
                              !.totalUrls = countUrlsInSitemap(r.content)]
         ELSE [res EXCEPT !.hasSitemap = TRUE]
    ELSE res

\* The GET of the final URL settles.  A rejection goes to the catch block and
\* its robots.txt request; an index starts the walk, from the same URL and a
\* new visitedUrls set; anything else returns.
GetSettles ==
    /\ smPc = "get"
    /\ \E r \in GetResponses(currentUrl) :
         LET walked == r.kind = "response" /\ Classified(smResults, r).sitemapType = "sitemap_index"
                       /\ ~CutOff(MaxDepth, currentUrl, {})
         IN  /\ web' = [web EXCEPT ![currentUrl] = r]
             /\ gets' = [gets EXCEPT ![currentUrl] = @ + 1]
             /\ smResults' = IF r.kind = "error"
                             THEN [smResults EXCEPT !.error = Message]
                             ELSE Classified(smResults, r)
             /\ smPc' = IF r.kind = "error" THEN "robots"
                        ELSE IF walked THEN "walk" ELSE "done"
             /\ stack' = IF walked THEN <<Frame(currentUrl, MaxDepth)>> ELSE <<>>
             /\ visitedUrls' = IF walked THEN {currentUrl} ELSE {}
    /\ walkGets' = [u \in Urls |-> 0]
    /\ UNCHANGED <<family, headResp, currentUrl, redirectCount, robotsLeft, totalUrlsCount,
                   heads, notSitemap>>

\* The walk from the point where the GET of its innermost call has settled
\* with response r to its next GET or its return.  A walk from /sitemap.xml
\* returns into results.totalUrls; a walk from a robots.txt sitemap returns
\* into totalUrlsCount, and the loop starts the next walk or ends.
AfterWalkGet(r) ==
    LET c == Continue[Append(Pop(stack), Fetched(stack[Len(stack)], r)), visitedUrls]
        l == RobotsLoop(robotsLeft, totalUrlsCount + c.value)
        same == [pc |-> smPc, results |-> smResults, stack |-> c.stack, visited |-> c.visited,
                 left |-> robotsLeft, count |-> totalUrlsCount, newWalk |-> FALSE]
    IN  IF c.stack # <<>>
        THEN same
        ELSE IF smPc = "walk"
        THEN [same EXCEPT !.pc = "done",
                          !.results = [smResults EXCEPT !.totalUrls = c.value]]
        ELSE IF l.stack = <<>>
        THEN [same EXCEPT !.pc = "done",
                          !.results = [smResults EXCEPT !.totalUrls = l.count],
                          !.left = l.left,
                          !.count = l.count]
        ELSE [same EXCEPT !.stack = l.stack,
                          !.visited = l.visited,
                          !.left = l.left,
                          !.count = l.count,
                          !.newWalk = TRUE]

\* The GET of the innermost countTotalUrlsInSitemaps call settles.
WalkGetSettles ==
    /\ smPc \in {"walk", "robotsWalk"}
    /\ stack # <<>>
    /\ \E r \in GetResponses(stack[Len(stack)].url) :
         LET url == stack[Len(stack)].url
             n == AfterWalkGet(r)
         IN  /\ web' = [web EXCEPT ![url] = r]
             /\ gets' = [gets EXCEPT ![url] = @ + 1]
             /\ walkGets' = IF n.newWalk THEN [u \in Urls |-> 0]
                            ELSE [walkGets EXCEPT ![url] = @ + 1]
             /\ stack' = n.stack
             /\ visitedUrls' = n.visited
             /\ robotsLeft' = n.left
             /\ totalUrlsCount' = n.count
             /\ smResults' = n.results
             /\ smPc' = n.pc
    /\ UNCHANGED <<family, headResp, currentUrl, redirectCount, heads, notSitemap>>

\* The GET of /robots.txt settles.  A rejection is added to results.error and
\* the run returns; a 200 that names sitemaps fills in the results and starts
\* the walks; anything else returns.
RobotsGetSettles ==
    /\ smPc = "robots"
    /\ \E r \in RobotsResponses :
         LET sitemapUrls == extractSitemapsFromRobots(r.content)
             found == r.kind = "response" /\ r.status = 200 /\ Len(sitemapUrls) > 0
             l == RobotsLoop(sitemapUrls, 0)
             filled == [smResults EXCEPT !.sitemapUrl = sitemapUrls[1],
                                         !.hasSitemap = TRUE,
                                         !.sitemapType = "robots_txt_reference",
                                         !.sitemapUrls = sitemapUrls]
         IN  IF found
             THEN /\ stack' = l.stack
                  /\ visitedUrls' = l.visited
                  /\ robotsLeft' = l.left
                  /\ totalUrlsCount' = l.count
                  /\ smResults' = IF l.stack = <<>>
                                  THEN [filled EXCEPT !.totalUrls = l.count]
                                  ELSE filled
                  /\ smPc' = IF l.stack = <<>> THEN "done" ELSE "robotsWalk"
             ELSE /\ smResults' = IF r.kind = "error"
                                  THEN [smResults EXCEPT !.error = RobotsMessage]
                                  ELSE smResults
                  /\ smPc' = "done"
                  /\ UNCHANGED <<stack, visitedUrls, robotsLeft, totalUrlsCount>>
    /\ walkGets' = [u \in Urls |-> 0]
    /\ UNCHANGED <<family, web, headResp, currentUrl, redirectCount, heads, gets, notSitemap>>

-----------------------------------------------------------------------------
(* Actor.main and calculateDomainAnalysis (src/unnamed/part_003)           *)
(*                                                                         *)
(* A JavaScript number is a record: NaN, an infinity, or the value val.    *)
(* A page result carries Undefined for the properties its object lacks.    *)

Num(n) == [nan |-> FALSE, inf |-> FALSE, val |-> n]
NaN == [nan |-> TRUE, inf |-> FALSE, val |-> 0]
Infinity == [nan |-> FALSE, inf |-> TRUE, val |-> 0]

\* Math.round(num / den * scale) for integers num >= 0, den >= 0: halves round
\* up; 0 / 0 is NaN and n / 0 is Infinity, which Math.round leaves alone.
RoundRatio(num, den, scale) ==
    IF den = 0 THEN IF num = 0 THEN NaN ELSE Infinity
    ELSE Num((2 * num * scale + den) \div (2 * den))

RECURSIVE Sum(_)
Sum(ns) == IF ns = <<>> THEN 0 ELSE Head(ns) + Sum(Tail(ns))

\* results.filter(test).length
Count(rs, test(_)) == Len(SelectSeq(rs, test))

\* r.prop || 0 of a seoData property, for a result that may lack seoData
SeoNumber(r, prop) == IF r.seoData = Undefined THEN 0 ELSE r.seoData[1][prop]

\* { ...seoData, ...scoreData, statusCode }
PageResult(url, seo, og, links, statusCode) ==
    [url |-> url, error |-> "", statusCode |-> statusCode,
     seoData |-> Some(seo), scoreData |-> Some(calculateScore(seo)),
     openGraphData |-> og, internalLinks |-> links]

\* { url: currentUrl, error: error.message, statusCode }
ErrorResult(url, statusCode) ==
    [url |-> url, error |-> Message, statusCode |-> statusCode,
     seoData |-> Undefined, scoreData |-> Undefined,
     openGraphData |-> [title |-> FALSE, description |-> FALSE, image |-> FALSE],
     internalLinks |-> <<>>]

\* Without the mapping of error codes: the default for every error that has
\* no response.
ErrorStatusDefault(error) == IF error.response # 0 THEN error.response ELSE 500

\* The status code the catch block of the crawl loop gives an error.
ErrorStatus(error) ==
    IF error.response # 0 THEN error.response
    ELSE IF error.code \in {"ENOTFOUND", "ECONNREFUSED"} THEN 404
    ELSE IF error.code = "ETIMEDOUT" THEN 408
    ELSE IF error.code = "ECONNRESET" THEN 503
    ELSE 500

\* overallGrade, from the sum and the number of the scores averaged
OverallGrade(sum, n) ==
    IF sum >= 90 * n /\ n > 0 THEN "A"
    ELSE IF sum >= 80 * n /\ n > 0 THEN "B"
    ELSE IF sum >= 70 * n /\ n > 0 THEN "C"
    ELSE IF sum >= 60 * n /\ n > 0 THEN "D"
    ELSE "F"

\* The object calculateDomainAnalysis returns for the page results rs and the
\* sitemap analysis; seo_score is in hundredths.
calculateDomainAnalysis(rs, sitemap, sslStatus) ==
    LET validResults == SelectSeq(rs, LAMBDA r : r.scoreData # Undefined)
        scoreSum == Sum([i \in 1..Len(validResults) |-> validResults[i].scoreData[1].seo_page_score])
        averageScore == IF Len(validResults) > 0
                        THEN RoundRatio(scoreSum, Len(validResults), 100)
                        ELSE Num(0)
        totalPages == Len(rs)
        Percentage(n) == RoundRatio(n, totalPages, 100)
        Average(prop) == RoundRatio(Sum([i \in 1..Len(rs) |-> SeoNumber(rs[i], prop)]), totalPages, 1)
        pagesWithH1 == Count(rs, LAMBDA r : SeoNumber(r, "h1Count") > 0)
        pagesWithMetaDesc == Count(rs, LAMBDA r : SeoNumber(r, "descriptionLength") > 0)
        pagesWithErrors == Count(rs, LAMBDA r : r.error # "")
        successfulPages == Count(rs, LAMBDA r : r.statusCode >= 200 /\ r.statusCode < 300)
        redirectPages == Count(rs, LAMBDA r : r.statusCode >= 300 /\ r.statusCode < 400)
        errorPages == Count(rs, LAMBDA r : r.statusCode >= 400)
        pagesWithOpenGraph == Count(rs, LAMBDA r : r.seoData # Undefined /\ r.seoData[1].hasOpenGraph)
        pagesWithOpenGraphTitle == Count(rs, LAMBDA r : r.openGraphData.title)
        pagesWithOpenGraphDescription == Count(rs, LAMBDA r : r.openGraphData.description)
        pagesWithOpenGraphImage == Count(rs, LAMBDA r : r.openGraphData.image)
    IN  [domain_name |-> IF rs = <<>> THEN <<>> ELSE Lower(rs[1].url.host),
         total_pages_analyzed |-> totalPages,
         seo_score |-> averageScore,
         seo_grade |-> OverallGrade(scoreSum, Len(validResults)),
         pages_with_h1 |-> pagesWithH1,
         pages_with_h1_percentage |-> Percentage(pagesWithH1),
         pages_with_meta_description |-> pagesWithMetaDesc,
         pages_with_meta_description_percentage |-> Percentage(pagesWithMetaDesc),
         pages_with_errors |-> pagesWithErrors,
         pages_with_errors_percentage |-> Percentage(pagesWithErrors),
         average_title_length |-> Average("titleLength"),
         average_description_length |-> Average("descriptionLength"),
         average_words_per_page |-> Average("words"),
         average_internal_links |->
             RoundRatio(Sum([i \in 1..Len(rs) |-> Len(rs[i].internalLinks)]), totalPages, 1),
         pages_with_successful_status |-> successfulPages,
         pages_with_successful_status_percentage |-> Percentage(successfulPages),
         pages_with_redirect_status |-> redirectPages,
         pages_with_redirect_status_percentage |-> Percentage(redirectPages),
         pages_with_error_status |-> errorPages,
         pages_with_error_status_percentage |-> Percentage(errorPages),
         pages_with_opengraph |-> pagesWithOpenGraph,
         pages_with_opengraph_percentage |-> Percentage(pagesWithOpenGraph),
         pages_with_opengraph_title |-> pagesWithOpenGraphTitle,
         pages_with_opengraph_title_percentage |-> Percentage(pagesWithOpenGraphTitle),
         pages_with_opengraph_description |-> pagesWithOpenGraphDescription,
         pages_with_opengraph_description_percentage |-> Percentage(pagesWithOpenGraphDescription),
         pages_with_opengraph_image |-> pagesWithOpenGraphImage,
         pages_with_opengraph_image_percentage |-> Percentage(pagesWithOpenGraphImage),
         ssl_certificate_info |-> sslStatus,
         sitemap_info |-> sitemap]

\* sitemap_info: the sitemap analysis with "|| default" applied, all defaults
\* when the analysis was not asked for.
SitemapInfo(analysis) ==
    IF analysis = Undefined
    THEN [has_sitemap |-> FALSE, sitemap_url |-> 0, sitemap_type |-> "null",
          sitemap_size |-> 0, total_urls |-> 0, sitemap_urls |-> <<>>,
          sitemap_lastmod |-> "null"]
    ELSE [has_sitemap |-> analysis[1].hasSitemap, sitemap_url |-> analysis[1].sitemapUrl,
          sitemap_type |-> analysis[1].sitemapType, sitemap_size |-> analysis[1].sitemapSize,
          total_urls |-> analysis[1].totalUrls, sitemap_urls |-> analysis[1].sitemapUrls,
          sitemap_lastmod |-> analysis[1].sitemapLastModified]

\* link.startsWith('/')
StartsWithSlash(link) ==
    link.scheme = "" /\ link.host = <<>> /\ link.path # <<>> /\ link.path[1] = "/"

RECURSIVE Directory(_)
\* a path up to and including its last "/"
Directory(path) ==
    IF path = <<>> \/ path[Len(path)] = "/" THEN path
    ELSE Directory(SubSeq(path, 1, Len(path) - 1))

\* fullUrl of an internal link found on the page at base (a parsed URL string):
\* the link itself, baseDomain + link, or new URL(link, normalizedUrl).href.
FullUrl(link, base) ==
    IF link.scheme # "" THEN link
    ELSE IF StartsWithSlash(link)
    THEN [link EXCEPT !.scheme = base.scheme, !.host = base.host]
    ELSE [link EXCEPT !.scheme = base.scheme, !.host = base.host,
                      !.path = ParsePath(Directory(base.path) \o link.host \o link.path)]

\* str.startsWith(baseDomain), baseDomain the origin of base
StartsWithOrigin(str, base) ==
    /\ str.scheme = base.scheme
    /\ Len(str.host) >= Len(base.host)
    /\ SubSeq(str.host, 1, Len(base.host)) = base.host

Includes(queue, url) == \E i \in 1..Len(queue) : queue[i] = url

RECURSIVE Enqueue(_, _, _, _)
\* The crawl queue after the loop over seoData.internalLinks.
Enqueue(queue, visited, links, base) ==
    IF links = <<>> THEN queue
    ELSE LET normalizedLink == normalize(FullUrl(Head(links), base))
         IN  IF /\ StartsWithOrigin(normalizedLink, base)
                /\ normalizedLink \notin visited
                /\ ~Includes(queue, normalizedLink)
             THEN Enqueue(Append(queue, normalizedLink), visited, Tail(links), base)
             ELSE Enqueue(queue, visited, Tail(links), base)

RECURSIVE NextPage(_, _, _, _)
\* The crawl loop from its condition to its next GET: URLs already visited are
\* shifted off the queue and skipped.  url is Undefined when the loop is over.
NextPage(queue, visited, processed, maxRequests) ==
    IF ~(Len(queue) > 0 /\ processed < maxRequests)
    THEN [queue |-> queue, visited |-> visited, url |-> Undefined]
    ELSE IF Head(queue) \in visited
    THEN NextPage(Tail(queue), visited, processed, maxRequests)
    ELSE [queue |-> Tail(queue), visited |-> visited \cup {Head(queue)},
          url |-> Some(Head(queue))]

-----------------------------------------------------------------------------
(* Inputs and sites handed to Actor.main                                   *)

\* largest maxRequestsPerCrawl given
MaxRequests == 2

WebUrl(host, path) ==
    [scheme |-> "https", host |-> host, path |-> path, query |-> Undefined,
     hash |-> Undefined, pad |-> FALSE]

\* https://a.c, https://a.c/, https://A.C/, https://a.c/a, https://a.c/b
Home == WebUrl(<<"a", ".", "c">>, <<>>)
HomeSlash == WebUrl(<<"a", ".", "c">>, <<"/">>)
HomeUpper == WebUrl(<<"A", ".", "C">>, <<"/">>)
PageA == WebUrl(<<"a", ".", "c">>, <<"/", "a">>)
PageB == WebUrl(<<"a", ".", "c">>, <<"/", "b">>)

\* the links /a, b, https://a.c/a/?utm_s=x, https://b.c/
LinkA == [EmptyString EXCEPT !.path = <<"/", "a">>]
LinkB == [EmptyString EXCEPT !.path = <<"b">>]
LinkATracked ==
    [WebUrl(<<"a", ".", "c">>, <<"/", "a", "/">>)
        EXCEPT !.query = Some(<<"u", "t", "m", "_", "s", "=", "x">>)]
LinkElsewhere == WebUrl(<<"b", ".", "c">>, <<"/">>)

StartUrlLists ==
    {<<>>,
     <<[EmptyString EXCEPT !.host = <<"a", ".", "c">>]>>,
     <<Home>>,
     <<HomeUpper>>,
     <<Home, HomeSlash>>,
     <<PageA, PageA, PageB>>}

Inputs ==
    [startUrls : StartUrlLists, maxRequestsPerCrawl : 0..MaxRequests,
     crawlUrls : BOOLEAN, includeSitemapAnalysis : BOOLEAN]

AllOpenGraph == [title |-> TRUE, description |-> TRUE, image |-> TRUE]
NoOpenGraph == [title |-> FALSE, description |-> FALSE, image |-> FALSE]

\* A fetched page: its status, and what analyzePage finds in its HTML.
Page(status, seo, og, links) ==
    [kind |-> "page", status |-> status, seo |-> seo, og |-> og, links |-> links,
     error |-> [response |-> 0, code |-> ""]]

\* A rejected request: error.response.status (0: no response) and error.code.
Rejected(response, code) ==
    [kind |-> "error", status |-> 0, seo |-> PlainPage, og |-> NoOpenGraph, links |-> <<>>,
     error |-> [response |-> response, code |-> code]]

\* What the server answers for a path it does not know.
NotFound == Page(404, ScenarioPage, NoOpenGraph, <<>>)

\* Sites, by normalized URL: one whose pages link to each other, one that does
\* not resolve, one whose inner pages fail, one that answers 404 with a page.
Sites ==
    {(normalize(Home) :> Page(200, PlainPage, AllOpenGraph,
                              <<LinkA, LinkATracked, LinkB, LinkElsewhere, HomeUpper>>))
        @@ (normalize(PageA) :> Page(200, ScenarioPage, NoOpenGraph, <<LinkB, Home>>))
        @@ (normalize(PageB) :> Page(200, WorstPage, NoOpenGraph, <<>>)),
     (normalize(Home) :> Rejected(0, "ENOTFOUND"))
        @@ (normalize(PageA) :> Rejected(0, "ECONNREFUSED"))
        @@ (normalize(PageB) :> Rejected(0, "ERR_BAD_RESPONSE")),
     (normalize(Home) :> Page(200, PerfectPage, AllOpenGraph, <<LinkA, LinkB>>))
        @@ (normalize(PageA) :> Rejected(503, "ERR_BAD_RESPONSE"))
        @@ (normalize(PageB) :> Rejected(0, "ETIMEDOUT")),
     (normalize(Home) :> NotFound)
        @@ (normalize(PageA) :> Rejected(0, "ECONNRESET"))
        @@ (normalize(PageB) :> Page(403, PlainPage, NoOpenGraph, <<LinkA>>))}

\* What a GET of url gets: a URL that does not parse is rejected before it is sent.
Get(url) ==
    IF ParseUrl(url) = Undefined THEN Rejected(0, "ERR_INVALID_URL")
    ELSE IF normalize(url) \in DOMAIN site THEN site[normalize(url)]
    ELSE NotFound

SslStatuses == {"valid", "expiring_soon", "expired", "no_certificate", "connection_error",
                "timeout", "error"}

NoAnalysis == [total_pages_analyzed |-> -1]

MainInit ==
    /\ input \in Inputs
    /\ site \in Sites
    /\ mainPc = "start"
    /\ results = <<>>
    /\ visitedPages = {}
    /\ urlsToProcess = <<>>
    /\ processedCount = 0
    /\ pageUrl = EmptyString
    /\ domainAnalysis = NoAnalysis

\* Actor.main is not run.
MainIdle ==
    /\ input = [startUrls |-> <<>>, maxRequestsPerCrawl |-> 0, crawlUrls |-> FALSE,
                includeSitemapAnalysis |-> FALSE]
    /\ site = <<>>
    /\ mainPc = "done"
    /\ results = <<>>
    /\ visitedPages = {}
    /\ urlsToProcess = <<>>
    /\ processedCount = 0
    /\ pageUrl = EmptyString
    /\ domainAnalysis = NoAnalysis

\* The sitemap analyzer as Actor.main finds it: not started, in front of a
\* site with no /sitemap.xml, with a urlset, or with an index of one urlset.
MainSitemapInit ==
    /\ family = "chain"
    /\ web \in {ChainWeb(len) : len \in 0..2}
    /\ headResp = [u \in Urls |-> HeadOk]
    /\ smPc = "idle"
    /\ smResults = InitialResults
    /\ currentUrl = 0
    /\ redirectCount = 0
    /\ stack = <<>>
    /\ visitedUrls = {}
    /\ robotsLeft = <<>>
    /\ totalUrlsCount = 0
    /\ heads = 0
    /\ gets = [u \in Urls |-> 0]
    /\ walkGets = [u \in Urls |-> 0]

\* The crawl loop from its start to its first GET, or to its end.
LoopEntry ==
    LET n == NextPage(input.startUrls, {}, 0, input.maxRequestsPerCrawl)
    IN  [pc |-> IF n.url = Undefined THEN "aggregate" ELSE "fetch",
         queue |-> n.queue, visited |-> n.visited,
         url |-> IF n.url = Undefined THEN EmptyString ELSE n.url[1]]

\* Actor.main up to its first request.  new URL(startUrls[0]) throws when there
\* is no first URL or it does not parse, which ends the run in the outer catch;
\* otherwise the sitemap analysis is started, or the crawl loop when it is not
\* asked for.
Main ==
    /\ mainPc = "start"
    /\ LET parses == input.startUrls # <<>> /\ ParseUrl(input.startUrls[1]) # Undefined
           waits == parses /\ input.includeSitemapAnalysis
           loops == parses /\ ~input.includeSitemapAnalysis
       IN  /\ mainPc' = IF ~parses THEN "failed" ELSE IF waits THEN "sitemap" ELSE LoopEntry.pc
           /\ smPc' = IF waits THEN "start" ELSE smPc
           /\ urlsToProcess' = IF loops THEN LoopEntry.queue ELSE urlsToProcess
           /\ visitedPages' = IF loops THEN LoopEntry.visited ELSE visitedPages
           /\ pageUrl' = IF loops THEN LoopEntry.url ELSE pageUrl
    /\ UNCHANGED <<input, site, results, processedCount, domainAnalysis, notMain>>
    /\ UNCHANGED <<family, web, headResp, smResults, currentUrl, redirectCount, stack,
                   visitedUrls, robotsLeft, totalUrlsCount, heads, gets, walkGets>>

\* analyzeDomainSitemaps has returned: Actor.main goes on into the crawl loop.
SitemapAnalysisReturns ==
    /\ mainPc = "sitemap"
    /\ smPc = "done"
    /\ mainPc' = LoopEntry.pc
    /\ urlsToProcess' = LoopEntry.queue
    /\ visitedPages' = LoopEntry.visited
    /\ pageUrl' = LoopEntry.url
    /\ UNCHANGED <<input, site, results, processedCount, domainAnalysis, notMain, sitemapVars>>

\* The GET of the page settles.  A page is analysed under its normalized URL,
\* scored and pushed, its internal links are queued and it counts as
\* processed; a rejection pushes an error result and does not count.  The
\* loop then goes on to its next GET, or ends.
PageGetSettles ==
    /\ mainPc = "fetch"
    /\ LET got == Get(pageUrl)
           normalizedUrl == normalize(pageUrl)
           result == IF got.kind = "page"
                     THEN PageResult(normalizedUrl, got.seo, got.og, got.links, got.status)
                     ELSE ErrorResult(pageUrl, ErrorStatus(got.error))
           queue == IF got.kind = "page" /\ input.crawlUrls /\ Len(got.links) > 0
                    THEN Enqueue(urlsToProcess, visitedPages, got.links, normalizedUrl)
                    ELSE urlsToProcess
           processed == IF got.kind = "page" THEN processedCount + 1 ELSE processedCount
           n == NextPage(queue, visitedPages, processed, input.maxRequestsPerCrawl)
       IN  /\ results' = Append(results, result)
           /\ processedCount' = processed
           /\ urlsToProcess' = n.queue
           /\ visitedPages' = n.visited
           /\ pageUrl' = IF n.url = Undefined THEN pageUrl ELSE n.url[1]
           /\ mainPc' = IF n.url = Undefined THEN "aggregate" ELSE "fetch"
    /\ UNCHANGED <<input, site, domainAnalysis, notMain, sitemapVars>>

\* calculateDomainAnalysis once its certificate request has settled.
CalculateDomainAnalysis ==
    /\ mainPc = "aggregate"
    /\ \E sslStatus \in SslStatuses :
         domainAnalysis' =
             calculateDomainAnalysis(results,
                                     SitemapInfo(IF input.includeSitemapAnalysis
                                                 THEN Some(smResults) ELSE Undefined),
                                     sslStatus)
    /\ mainPc' = "done"
    /\ UNCHANGED <<input, site, results, visitedPages, urlsToProcess, processedCount,
                   pageUrl, notMain, sitemapVars>>

-----------------------------------------------------------------------------
(* SEOAnalyzer.analyzeLinks (src/unnamed/part_003)                         *)
(*                                                                         *)
(* An href is a string as the normalizer's; its host and path may be       *)
(* written label by label ("samehost", ".", "com").  An href with no       *)
(* scheme is a relative reference, its host part the first characters of   *)
(* a relative path.                                                        *)

\* Social media domains to exclude from external links
socialMediaDomains ==
    {<<"facebook", ".", "com">>, <<"fb", ".", "com">>, <<"m", ".", "facebook", ".", "com">>,
     <<"twitter", ".", "com">>, <<"t", ".", "co">>, <<"x", ".", "com">>,
     <<"instagram", ".", "com">>, <<"linkedin", ".", "com">>,
     <<"youtube", ".", "com">>, <<"youtu", ".", "be">>,
     <<"pinterest", ".", "com">>, <<"tiktok", ".", "com">>,
     <<"snapchat", ".", "com">>, <<"whatsapp", ".", "com">>,
     <<"telegram", ".", "org">>, <<"discord", ".", "com">>,
     <<"reddit", ".", "com">>, <<"tumblr", ".", "com">>,
     <<"flickr", ".", "com">>, <<"vimeo", ".", "com">>,
     <<"medium", ".", "com">>, <<"github", ".", "com">>,
     <<"bit", ".", "ly">>, <<"tinyurl", ".", "com">>, <<"goo", ".", "gl">>}

\* str.endsWith(suffix)
EndsWith(str, suffix) ==
    /\ Len(str) >= Len(suffix)
    /\ SubSeq(str, Len(str) - Len(suffix) + 1, Len(str)) = suffix

\* Only the listed domains themselves, not their subdomains.
IsSocialMediaExact(hostname) == hostname \in socialMediaDomains

\* url.hostname === domain || url.hostname.endsWith('.' + domain)
IsSocialMedia(hostname) ==
    \E domain \in socialMediaDomains :
        hostname = domain \/ EndsWith(hostname, <<".">> \o domain)

\* new URL(href, baseUrl): the URL object, or Undefined when the parser throws.
\* A base that does not parse throws whatever the href.  An href with a scheme
\* other than http(s) has an empty hostname and its path as written.
ResolveHref(href, base) ==
    LET b == ParseUrl(base)
    IN  IF b = Undefined THEN Undefined
        ELSE IF href.scheme \in {"http", "https"}
        THEN IF href.host = <<>> THEN Undefined ELSE ParseUrl(href)
        ELSE IF href.scheme # ""
        THEN Some([protocol |-> href.scheme, hostname |-> <<>>, pathname |-> href.path,
                   query |-> href.query, fragment |-> href.hash])
        ELSE IF href.host = <<>> /\ href.path = <<>>
        THEN Some([b[1] EXCEPT !.query = IF href.query = Undefined THEN @ ELSE href.query,
                               !.fragment = href.hash])
        ELSE IF StartsWithSlash(href)
        THEN Some([b[1] EXCEPT !.pathname = ParsePath(href.path),
                               !.query = href.query,
                               !.fragment = href.hash])
        ELSE Some([b[1] EXCEPT !.pathname = ParsePath(Directory(@) \o href.host \o href.path),
                               !.query = href.query,
                               !.fragment = href.hash])

\* baseUrl + '#' + fragment
WithHash(str, fragment) ==
    IF str.hash = Undefined THEN [str EXCEPT !.hash = Some(fragment)]
    ELSE [str EXCEPT !.hash = Some(str.hash[1] \o <<"#">> \o fragment)]

\* url.hash && url.hash !== ''
HasHash(url) == url.fragment # Undefined /\ url.fragment # Some(<<>>)

\* href.endsWith('#')
EndsWithHash(href) ==
    href.hash # Undefined /\ (href.hash = Some(<<>>) \/ EndsWith(href.hash[1], <<"#">>))

\* isHashOnlyLink
isHashOnlyLink(href, url, base) ==
    LET baseUrlObj == ParseUrl(base)[1]
    IN  \/ SerializeUrl(url) = WithHash(base, <<>>)
        \/ SerializeUrl(url) = WithHash(base, <<"content">>)
        \/ url.pathname = baseUrlObj.pathname /\ HasHash(url)
        \/ url.pathname = <<"/">> /\ HasHash(url)
        \/ EndsWithSlash(url.pathname) /\ HasHash(url) /\ url.pathname = baseUrlObj.pathname
        \/ EndsWithHash(href)

\* What the loop body of analyzeLinks does with one href: nothing for an empty
\* one ("none"), one that does not resolve ("invalid"), a hash-only link
\* ("fragment") and a social media link ("social"); "internal" and "external"
\* links are counted and listed.
ClassifyLink(href, base) ==
    IF href = EmptyString THEN "none"
    ELSE LET resolved == ResolveHref(href, base)
         IN  IF resolved = Undefined THEN "invalid"
             ELSE IF isHashOnlyLink(href, resolved[1], base) THEN "fragment"
             ELSE IF resolved[1].hostname = ParseUrl(base)[1].hostname THEN "internal"
             ELSE IF IsSocialMedia(resolved[1].hostname) THEN "social"
             ELSE "external"

\* The linkData of a counted link, its status not yet checked.
LinkData(url) == [url |-> SerializeUrl(url), statusCode |-> 0, isBroken |-> FALSE]

RECURSIVE CountedLinks(_, _, _)
\* The linkData of the hrefs of class kind ("internal" or "external"), in
\* document order: internalLinks and externalLinks after the loop.
CountedLinks(hrefs, base, kind) ==
    IF hrefs = <<>> THEN <<>>
    ELSE IF ClassifyLink(Head(hrefs), base) = kind
    THEN <<LinkData(ResolveHref(Head(hrefs), base)[1])>>
             \o CountedLinks(Tail(hrefs), base, kind)
    ELSE CountedLinks(Tail(hrefs), base, kind)

\* /^[^\s@]+@[^\s@]+\.[^\s@]+$/ on a string with no white space
IsEmailAddress(str) ==
    /\ Cardinality({i \in 1..Len(str) : str[i] = "@"}) = 1
    /\ \E i, j \in 1..Len(str) :
         str[i] = "@" /\ str[j] = "." /\ 1 < i /\ i + 1 < j /\ j < Len(str)

\* One link after checkLinkStatuses: a mailto link is judged by its address,
\* tel:, sms: and whatsapp: links are valid, any other link by the status its
\* HEAD request is answered with.
CheckedLink(link, broken) ==
    IF link.url.scheme = "mailto"
    THEN IF IsEmailAddress(link.url.path)
         THEN [link EXCEPT !.statusCode = 200, !.isBroken = FALSE]
         ELSE [link EXCEPT !.statusCode = 400, !.isBroken = TRUE]
    ELSE IF link.url.scheme \in {"tel", "sms", "whatsapp"}
    THEN [link EXCEPT !.statusCode = 200, !.isBroken = FALSE]
    ELSE IF link.url.host \in broken
    THEN [link EXCEPT !.statusCode = 404, !.isBroken = TRUE]
    ELSE [link EXCEPT !.statusCode = 200, !.isBroken = FALSE]

checkLinkStatuses(links, broken) == [i \in 1..Len(links) |-> CheckedLink(links[i], broken)]

\* The object analyzeLinks returns for the page's hrefs (anchor texts are left
\* out).
analyzeLinks(hrefs, base, broken) ==
    LET internalLinks == checkLinkStatuses(CountedLinks(hrefs, base, "internal"), broken)
        externalLinks == checkLinkStatuses(CountedLinks(hrefs, base, "external"), broken)
        brokenInternalLinks == Len(SelectSeq(internalLinks, LAMBDA l : l.isBroken))
        brokenExternalLinks == Len(SelectSeq(externalLinks, LAMBDA l : l.isBroken))
        totalValidLinks == Len(internalLinks) + Len(externalLinks)
    IN  [internalLinksCount |-> Len(internalLinks),
         externalLinksCount |-> Len(externalLinks),
         internalLinks |-> internalLinks,
         externalLinks |-> externalLinks,
         brokenInternalLinks |-> brokenInternalLinks,
         brokenExternalLinks |-> brokenExternalLinks,
         totalBrokenLinks |-> brokenInternalLinks + brokenExternalLinks,
         brokenLinksPercentage |->
             IF totalValidLinks > 0
             THEN RoundRatio(brokenInternalLinks + brokenExternalLinks, totalValidLinks, 100).val
             ELSE 0]

-----------------------------------------------------------------------------
(* Pages handed to analyzeLinks                                            *)

\* most anchors added to a page
MaxAnchors == 2

SameHost == <<"samehost", ".", "com">>
OtherHost == <<"other", ".", "com">>

Href(host, path, hash) ==
    [scheme |-> "https", host |-> host, path |-> path, query |-> Undefined,
     hash |-> hash, pad |-> FALSE]

\* '#', 'https://samehost.com/#section', 'https://samehost.com/other',
\* 'https://facebook.com/page', 'https://other.com'
ScenarioAnchors ==
    <<[EmptyString EXCEPT !.hash = Some(<<>>)],
      Href(SameHost, <<"/">>, Some(<<"section">>)),
      Href(SameHost, <<"/", "other">>, Undefined),
      Href(<<"facebook", ".", "com">>, <<"/", "page">>, Undefined),
      Href(OtherHost, <<>>, Undefined)>>

\* Further hrefs: '', '#section', '/other', 'page', 'https://samehost.com/other#part',
\* 'https://www.facebook.com/', 'https://notfacebook.com/', 'https://other.com/#top',
\* 'https://other.com/other#part', 'https://other.com/page#part',
\* 'https://other.com/page#', 'https://sub.samehost.com/', 'mailto:x@y.z',
\* 'mailto:nobody', 'https://'.
OtherHrefs ==
    {EmptyString,
     [EmptyString EXCEPT !.hash = Some(<<"section">>)],
     [EmptyString EXCEPT !.path = <<"/", "other">>],
     [EmptyString EXCEPT !.path = <<"page">>],
     Href(SameHost, <<"/", "other">>, Some(<<"part">>)),
     Href(<<"www", ".", "facebook", ".", "com">>, <<"/">>, Undefined),
     Href(<<"notfacebook", ".", "com">>, <<"/">>, Undefined),
     Href(OtherHost, <<"/">>, Some(<<"top">>)),
     Href(OtherHost, <<"/", "other">>, Some(<<"part">>)),
     Href(OtherHost, <<"/", "page">>, Some(<<"part">>)),
     Href(OtherHost, <<"/", "page">>, Some(<<>>)),
     Href(<<"sub", ".", "samehost", ".", "com">>, <<"/">>, Undefined),
     [EmptyString EXCEPT !.scheme = "mailto", !.path = <<"x", "@", "y", ".", "z">>],
     [EmptyString EXCEPT !.scheme = "mailto", !.path = <<"nobody">>],
     Href(<<>>, <<>>, Undefined)}

Hrefs == OtherHrefs \cup {ScenarioAnchors[i] : i \in 1..Len(ScenarioAnchors)}

\* 'https://samehost.com/', 'https://samehost.com/other', and a base that is
\* no URL
BaseUrls ==
    {Href(SameHost, <<"/">>, Undefined),
     Href(SameHost, <<"/", "other">>, Undefined),
     [EmptyString EXCEPT !.host = SameHost]}

NotAnalysed == [internalLinksCount |-> -1]

LinksInit ==
    /\ anchors \in {<<>>, ScenarioAnchors}
    /\ baseUrl \in BaseUrls
    /\ brokenHosts \in {{}, {OtherHost}}
    /\ linksAnalysis = NotAnalysed

\* analyzeLinks is not run.
LinksIdle ==
    /\ anchors = <<>>
    /\ baseUrl = EmptyString
    /\ brokenHosts = {}
    /\ linksAnalysis = NotAnalysed

\* The page has one more anchor.
AddAnchor ==
    /\ linksAnalysis = NotAnalysed
    /\ \/ Len(anchors) < MaxAnchors
       \/ /\ Len(anchors) >= Len(ScenarioAnchors)
          /\ Len(anchors) < Len(ScenarioAnchors) + MaxAnchors
          /\ SubSeq(anchors, 1, Len(ScenarioAnchors)) = ScenarioAnchors
    /\ \E href \in Hrefs : anchors' = Append(anchors, href)
    /\ UNCHANGED <<baseUrl, brokenHosts, linksAnalysis, notLinks>>

\* analyzeLinks($, baseUrl)
AnalyzeLinks ==
    /\ linksAnalysis = NotAnalysed
    /\ linksAnalysis' = analyzeLinks(anchors, baseUrl, brokenHosts)
    /\ UNCHANGED <<anchors, baseUrl, brokenHosts, notLinks>>

-----------------------------------------------------------------------------
(* SEOAnalyzer.analyzePage: headings and images (src/unnamed/part_003)     *)
(*                                                                         *)
(* A text is the sequence of the words $(el).text().trim() splits into,    *)
(* <<>> for an element with no text.  An attribute an element lacks is     *)
(* Undefined.                                                              *)

\* An h1..h6 element and an img element.
HeadingElement(level, text) == [level |-> level, text |-> text]
ImgElement(src, alt) == [src |-> src, alt |-> alt]

\* word.toLowerCase()
LowerWord(word) == IF word = "SEO" THEN "seo" ELSE word

\* $('hN').each((i, el) => hNTags.push($(el).text().trim()))
HeadingTags(elements, level) ==
    LET ofLevel == SelectSeq(elements, LAMBDA el : el.level = level)
    IN  [i \in 1..Len(ofLevel) |-> ofLevel[i].text]

\* analyzeHeadingStructure: the headings with text, in document order
analyzeHeadingStructure(elements) ==
    LET withText == SelectSeq(elements, LAMBDA el : el.text # <<>>)
    IN  [i \in 1..Len(withText) |->
            [level |-> withText[i].level, text |-> withText[i].text, position |-> i]]

\* The loop of the hierarchy rule over the headings left, from the values its
\* locals have; previousLevel 0 is "no heading yet".
RECURSIVE HierarchyLoop(_, _, _, _, _)
HierarchyLoop(left, hierarchyScore, previousLevel, consecutiveSameLevel, maxHierarchy) ==
    IF left = <<>>
    THEN [hierarchyScore |-> hierarchyScore, maxHierarchy |-> maxHierarchy]
    ELSE LET level == Head(left).level
         IN  IF level > previousLevel + 1 /\ previousLevel # 0
             THEN HierarchyLoop(Tail(left), hierarchyScore - 5, level,
                                consecutiveSameLevel, Max(maxHierarchy, level))
             ELSE IF level = previousLevel
             THEN HierarchyLoop(Tail(left),
                                IF consecutiveSameLevel + 1 > 2
                                THEN hierarchyScore - 2 ELSE hierarchyScore,
                                level, consecutiveSameLevel + 1, Max(maxHierarchy, level))
             ELSE HierarchyLoop(Tail(left), hierarchyScore, level, 0,
                                Max(maxHierarchy, level))

\* As if the bonus for the deepest level could fill the 30 points of the rule.
HierarchyScoreBonusTo30(headings) ==
    LET loop == HierarchyLoop(headings, 0, 0, 0, 0)
        withBonus == loop.hierarchyScore + Min(loop.maxHierarchy * 10, 30)
    IN  Min(Max(withBonus, 0), 30)

\* 2. Proper hierarchy: the penalties of the loop, the bonus for the deepest
\* level, then the floor at 0 and the cap at 30.
HierarchyScore(headings) ==
    LET loop == HierarchyLoop(headings, 0, 0, 0, 0)
        withBonus == loop.hierarchyScore + Min(loop.maxHierarchy * 5, 20)
    IN  Min(Max(withBonus, 0), 30)

\* 3. Title relevance: some word of some heading is a word of the title.
TitleHasKeywords(headings, title) ==
    \E i \in 1..Len(headings) : \E j \in 1..Len(headings[i].text) :
        \E k \in 1..Len(title) :
            LowerWord(headings[i].text[j]) = LowerWord(title[k])

calculateHeadingScore(headings, title) ==
    LET h1Count == Len(SelectSeq(headings, LAMBDA h : h.level = 1))
        h2Count == Len(SelectSeq(headings, LAMBDA h : h.level = 2))
        h3Count == Len(SelectSeq(headings, LAMBDA h : h.level = 3))
        totalHeadings == Len(headings)
        presence == IF h1Count = 1 THEN 20 ELSE IF h1Count = 0 THEN 0 ELSE 10
        relevance == IF title # <<>> /\ TitleHasKeywords(headings, title) THEN 20 ELSE 0
        distribution == IF totalHeadings >= 3
                        THEN 15 + (IF h2Count >= 2 THEN 10 ELSE 0)
                                + (IF h3Count >= 3 THEN 5 ELSE 0)
                        ELSE 0
    IN  Max(0, Min(100, presence + HierarchyScore(headings) + relevance + distribution))

\* !alt || alt.trim() === ''
NoAlt(img) == img.alt = Undefined \/ img.alt = Some(<<>>)

\* The img[src] elements without alt text, counted whatever includeImages is.
ImagesWithoutAlt(elements) ==
    Len(SelectSeq(elements, LAMBDA img : img.src # Undefined /\ NoAlt(img)))

\* analyzeImagesDetailed: nothing without includeImages; otherwise one record
\* for each of the first maxImagesPerPage img[src] elements (all for -1) whose
\* src is not empty.
analyzeImagesDetailed(elements, includeImages, maxImagesPerPage) ==
    IF ~includeImages THEN <<>>
    ELSE LET imageElements == SelectSeq(elements, LAMBDA img : img.src # Undefined)
             maxImages == IF maxImagesPerPage = -1 THEN Len(imageElements)
                          ELSE maxImagesPerPage
             taken == SubSeq(imageElements, 1, Min(Len(imageElements), maxImages))
             kept == SelectSeq(taken, LAMBDA img : img.src # Some(<<>>))
         IN  [i \in 1..Len(kept) |->
                 [imageUrl |-> kept[i].src[1],
                  alt |-> IF kept[i].alt = Undefined THEN <<>> ELSE kept[i].alt[1]]]

\* The part of the object analyzePage returns that comes from the headings
\* and the images of the document.
analyzePage(title, headingElements, imgElements, includeImages, maxImagesPerPage) ==
    LET detailedHeadingStructure == analyzeHeadingStructure(headingElements)
    IN  [h |-> [level \in 1..6 |-> HeadingTags(headingElements, level)],
         hCount |-> [level \in 1..6 |-> Len(HeadingTags(headingElements, level))],
         headingStructure |-> detailedHeadingStructure,
         headingScore |-> calculateHeadingScore(detailedHeadingStructure, title),
         images |-> analyzeImagesDetailed(imgElements, includeImages, maxImagesPerPage),
         imagesWithoutAlt |-> ImagesWithoutAlt(imgElements)]

-----------------------------------------------------------------------------
(* Documents handed to analyzePage                                         *)

\* The headings a page is given one at a time, beyond which only the listed
\* pages go.
MaxHeadings == 3

\* The heading levels of the pages built.
HeadingLevels == 1..4

HeadingTexts == {<<>>, <<"SEO">>, <<"audit", "tips">>}

\* A page of seven headings in proper order: one h1, two h2, three h3, an h4.
OrderedPage ==
    <<HeadingElement(1, <<"SEO">>), HeadingElement(2, <<"audit", "tips">>),
      HeadingElement(3, <<"audit", "tips">>), HeadingElement(3, <<"SEO">>),
      HeadingElement(2, <<"SEO">>), HeadingElement(3, <<"SEO">>),
      HeadingElement(4, <<"audit", "tips">>)>>

\* Four and five h2 in a row.
RunOf(n) == [i \in 1..n |-> HeadingElement(2, <<"SEO">>)]

HeadingLists == {<<>>, OrderedPage, RunOf(4), RunOf(5)}

Titles == {<<>>, <<"seo", "guide">>}

\* No img; an img with alt text, one with a blank alt, one without alt, one
\* with an empty src and one without src.
ImageLists ==
    {<<>>,
     <<ImgElement(Some(<<"a.png">>), Some(<<"logo">>)),
       ImgElement(Some(<<"b.png">>), Some(<<>>)),
       ImgElement(Some(<<"c.png">>), Undefined),
       ImgElement(Some(<<>>), Undefined),
       ImgElement(Undefined, Undefined)>>}

NoArgs == [includeImages |-> TRUE, maxImagesPerPage |-> -1]
NotAnalysedPage == [headingScore |-> -1]

PageInit ==
    /\ docTitle \in Titles
    /\ docHeadings \in HeadingLists
    /\ docImages \in ImageLists
    /\ pageArgs = NoArgs
    /\ pageData = NotAnalysedPage

\* analyzePage is not run.
PageIdle ==
    /\ docTitle = <<>>
    /\ docHeadings = <<>>
    /\ docImages = <<>>
    /\ pageArgs = NoArgs
    /\ pageData = NotAnalysedPage

\* The page has one more heading.
AddHeading ==
    /\ pageData = NotAnalysedPage
    /\ Len(docHeadings) < MaxHeadings
    /\ \E level \in HeadingLevels : \E text \in HeadingTexts :
           docHeadings' = Append(docHeadings, HeadingElement(level, text))
    /\ UNCHANGED <<docTitle, docImages, pageArgs, pageData, notPage>>

\* One call of analyzePage on the document.
AnalyzePage ==
    /\ pageData = NotAnalysedPage
    /\ \E includeImages \in BOOLEAN : \E maxImagesPerPage \in {-1, 1} :
           /\ pageArgs' = [includeImages |-> includeImages,
                           maxImagesPerPage |-> maxImagesPerPage]
           /\ pageData' = analyzePage(docTitle, docHeadings, docImages,
                                      includeImages, maxImagesPerPage)
    /\ UNCHANGED <<docTitle, docHeadings, docImages, notPage>>

-----------------------------------------------------------------------------
(* SEOAnalyzer.checkLinkStatuses, step by step (src/unnamed/part_003)      *)
(*                                                                         *)
(* The call runs up to its next await in one step; every HEAD request it   *)
(* has sent settles in a step of its own.  A statusCode of null is written *)
(* Undefined, a number n is written Some(n).  Positions count from 1, the  *)
(* loop variable i from 0 as in the source.                                *)

batchSize == 5

\* A link record as analyzeLinks builds it, before any check.
ProbeLinkData(url) == [url |-> url, statusCode |-> Undefined, isBroken |-> FALSE]

\* links.slice(i) in place of links.slice(i, i + batchSize)
BatchToEnd(links, i) == (i + 1)..Len(links)

\* The positions of links.slice(i, i + batchSize)
Batch(links, i) == (i + 1)..Min(i + batchSize, Len(links))

\* The branches of the probe that return before any request is sent.
SettlesAtOnce(link) == link.url.scheme \in {"mailto", "tel", "sms", "whatsapp"}

\* What those branches write to the link.
WrittenAtOnce(link) ==
    LET checked == CheckedLink([link EXCEPT !.statusCode = 0], {})
    IN  [link EXCEPT !.statusCode = Some(checked.statusCode),
                     !.isBroken = checked.isBroken]

\* What a HEAD request is answered with: a status, or no response at all.
NoResponse == [kind |-> "no response"]
HeadAnswers == {[status |-> 200], [status |-> 404], [status |-> 503], NoResponse}

\* validateStatus: the request resolves for a status below 500 and is
\* rejected otherwise.
Resolves(answer) == answer # NoResponse /\ answer.status < 500

\* What the probe writes to its link when its request settles.
WrittenOnSettle(link, answer) ==
    IF Resolves(answer)
    THEN [link EXCEPT !.statusCode = Some(answer.status),
                      !.isBroken = answer.status >= 400]
    ELSE [link EXCEPT !.statusCode = Some(IF answer = NoResponse
                                          THEN 0
                                          ELSE OrNum(answer.status, 0)),
                      !.isBroken = TRUE]

\* batch.map(async (link) => ...) followed by the await of Promise.all: the
\* probes of the batch run to their first await.
StartBatch(i) ==
    /\ probeLinks' = [k \in 1..Len(probeLinks) |->
                        IF k \in Batch(probeLinks, i) /\ SettlesAtOnce(probeLinks[k])
                        THEN WrittenAtOnce(probeLinks[k])
                        ELSE probeLinks[k]]
    /\ inFlight' = {k \in Batch(probeLinks, i) : ~SettlesAtOnce(probeLinks[k])}
    /\ batchStart' = i
    /\ probePc' = "all"

\* The links of a page, by position: http links, with a valid mailto link in
\* place 6, 'mailto:nobody' in place 7 and a tel link in place 9.
MaxLinks == 8

ProbeUrl(k) ==
    CASE k = 6 -> [EmptyString EXCEPT !.scheme = "mailto", !.path = <<"x", "@", "y", ".", "z">>]
      [] k = 7 -> [EmptyString EXCEPT !.scheme = "mailto", !.path = <<"nobody">>]
      [] k = 9 -> [EmptyString EXCEPT !.scheme = "tel", !.path = <<"1">>]
      [] OTHER -> Href(OtherHost, <<"/", "page">>, Undefined)

ProbeLists == {[k \in 1..n |-> ProbeLinkData(ProbeUrl(k))] : n \in 0..MaxLinks}

ProbesInit ==
    /\ probeLinks \in ProbeLists
    /\ batchStart = 0
    /\ inFlight = {}
    /\ probePc = "idle"

\* checkLinkStatuses is not run.
ProbesIdle ==
    /\ probeLinks = <<>>
    /\ batchStart = 0
    /\ inFlight = {}
    /\ probePc = "idle"

\* The call, up to its first await: the first batch is started, or the loop is
\* not entered.
CheckLinkStatuses ==
    /\ probePc = "idle"
    /\ IF 0 < Len(probeLinks)
       THEN StartBatch(0)
       ELSE /\ probePc' = "done"
            /\ UNCHANGED <<probeLinks, batchStart, inFlight>>
    /\ UNCHANGED notProbes

\* One pending HEAD request settles and its probe writes the outcome.
ProbeSettles ==
    /\ probePc = "all"
    /\ \E k \in inFlight : \E answer \in HeadAnswers :
           /\ probeLinks' = [probeLinks EXCEPT ![k] = WrittenOnSettle(probeLinks[k], answer)]
           /\ inFlight' = inFlight \ {k}
    /\ UNCHANGED <<batchStart, probePc, notProbes>>

\* Promise.all(promises) resolves: the delay before the next batch is
\* started, or the loop ends.
BatchSettled ==
    /\ probePc = "all"
    /\ inFlight = {}
    /\ probePc' = IF batchStart + batchSize < Len(probeLinks) THEN "delay" ELSE "done"
    /\ UNCHANGED <<probeLinks, batchStart, inFlight, notProbes>>

\* The 100 ms timer fires: i += batchSize and the next batch is started.
DelayElapses ==
    /\ probePc = "delay"
    /\ StartBatch(batchStart + batchSize)
    /\ UNCHANGED notProbes

-----------------------------------------------------------------------------
(* Specifications                                                          *)

InitScorer == ScorerInit /\ UrlIdle /\ SitemapIdle /\ MainIdle /\ LinksIdle /\ PageIdle /\ ProbesIdle
NextScorer == SetFeature \/ CalculateScore
SpecScorer == InitScorer /\ [][NextScorer]_vars

InitUrl == UrlInit /\ ScorerIdle /\ SitemapIdle /\ MainIdle /\ LinksIdle /\ PageIdle /\ ProbesIdle
NextUrl == Normalize
SpecUrl == InitUrl /\ [][NextUrl]_vars

InitSitemap == SitemapInit /\ ScorerIdle /\ UrlIdle /\ MainIdle /\ LinksIdle /\ PageIdle /\ ProbesIdle
NextSitemap ==
    \/ AnalyzeDomainSitemaps
    \/ HeadSettles
    \/ GetSettles
    \/ WalkGetSettles
    \/ RobotsGetSettles
SpecSitemap == InitSitemap /\ [][NextSitemap]_vars
\* Every request carries a timeout, so each one settles.
FairSpecSitemap == SpecSitemap /\ WF_vars(NextSitemap)

InitMain == MainInit /\ MainSitemapInit /\ ScorerIdle /\ UrlIdle /\ LinksIdle /\ PageIdle /\ ProbesIdle
NextMain ==
    \/ Main
    \/ SitemapAnalysisReturns
    \/ PageGetSettles
    \/ CalculateDomainAnalysis
    \/ NextSitemap
SpecMain == InitMain /\ [][NextMain]_vars

InitLinks == LinksInit /\ ScorerIdle /\ UrlIdle /\ SitemapIdle /\ MainIdle /\ PageIdle /\ ProbesIdle
NextLinks == AddAnchor \/ AnalyzeLinks
SpecLinks == InitLinks /\ [][NextLinks]_vars

InitPage == PageInit /\ ScorerIdle /\ UrlIdle /\ SitemapIdle /\ MainIdle /\ LinksIdle /\ ProbesIdle
NextPageAnalysis == AddHeading \/ AnalyzePage
SpecPage == InitPage /\ [][NextPageAnalysis]_vars

InitProbes ==
    ProbesInit /\ ScorerIdle /\ UrlIdle /\ SitemapIdle /\ MainIdle /\ LinksIdle /\ PageIdle
NextProbes == CheckLinkStatuses \/ ProbeSettles \/ BatchSettled \/ DelayElapses
SpecProbes == InitProbes /\ [][NextProbes]_vars

-----------------------------------------------------------------------------
(* Properties of the scorer, checked under SpecScorer                      *)

\* C1: every score calculateScore returns is an integer in 0..100, and the
\* grade is A for score >= 90, B for 80..89, C for 70..79, D for 60..69 and
\* F for score <= 59.
C1_ScoreInRangeAndGraded ==
    calls > 0 =>
        LET s == scoreResult.seo_page_score
            g == scoreResult.seo_grade
        IN  /\ s \in 0..100
            /\ g = "A" <=> s >= 90
            /\ g = "B" <=> (80 <= s /\ s <= 89)
            /\ g = "C" <=> (70 <= s /\ s <= 79)
            /\ g = "D" <=> (60 <= s /\ s <= 69)
            /\ g = "F" <=> s <= 59

\* A call returned exactly 90 and graded it A.
C1_Witness ==
    calls > 0 /\ scoreResult.seo_page_score = 90 /\ scoreResult.seo_grade = "A"

\* C2 as claimed: the end-to-end scenario page scores 58 with grade D and
\* category Poor.
C2_ScenarioAsClaimed ==
    (calls > 0 /\ seoData = ScenarioPage) =>
        /\ scoreResult.seo_page_score = 58
        /\ scoreResult.seo_grade = "D"
        /\ scoreResult.seo_category = "Poor"

\* C2 as amended: the end-to-end scenario page scores 58, which is grade F
\* (below 60) and category Needs Improvement (at least 50).
C2_ScenarioScores58GradeF ==
    (calls > 0 /\ seoData = ScenarioPage) =>
        /\ scoreResult.seo_page_score = 58
        /\ scoreResult.seo_grade = "F"
        /\ scoreResult.seo_category = "Needs Improvement"
        /\ scoreResult.issues = <<"missing/short title", "missing/short meta description",
                                  "no favicon", "no OpenGraph", "very low word count">>

\* The scenario page has been scored.
C2_Witness == calls > 0 /\ seoData = ScenarioPage /\ scoreResult.seo_page_score = 58

ImageLabel(n) == ToString(n) \o " images without alt text"

\* C4: the image section subtracts min(5, n) for n images without alt text;
\* for n >= 1 the issue list carries the label with the full count n, for
\* n = 0 it carries no image label.
C4_ImagePenaltyCapped ==
    calls > 0 =>
        LET n == seoData.imagesWithoutAlt
            labels == {scoreResult.issues[i] : i \in 1..Len(scoreResult.issues)}
        IN  /\ scoreSteps[5] - scoreSteps[6] = Min(5, n)
            /\ scoreSteps[5] - scoreSteps[6] <= 5
            /\ \A k \in 0..(MaxImages + 1) : ImageLabel(k) \in labels <=> (k = n /\ n >= 1)

\* Ten images miss alt text: 5 points are subtracted and the label counts 10.
C4_Witness ==
    /\ calls > 0
    /\ seoData.imagesWithoutAlt = 10
    /\ scoreSteps[5] - scoreSteps[6] = 5
    /\ \E i \in 1..Len(scoreResult.issues) :
           scoreResult.issues[i] = "10 images without alt text"

-----------------------------------------------------------------------------
(* Properties of the normalizer, checked under SpecUrl                     *)

\* rawUrl, once trimmed, is a string new URL() accepts.
Parseable(str) == str # EmptyString /\ str.scheme # ""

\* C5: for every parseable URL x, normalize(normalize(x)) = normalize(x).
C5_NormalizeIdempotent ==
    (Parseable(rawUrl) /\ Len(normalized) >= 2) => normalized[2] = normalized[1]

\* normalize was applied twice to a URL with an upper-case host, repeated and
\* trailing path separators, utm_ and other parameters and a fragment, and the
\* first application changed all of them.
C5_Witness ==
    /\ Len(normalized) >= 2
    /\ rawUrl.scheme = "https"
    /\ rawUrl.host = <<"A", ".", "C">>
    /\ rawUrl.path = <<"/", "a", "/", "/", "a", "/", "/">>
    /\ rawUrl.query = Some(<<"K", "=", "x", "+", "%20", "&",
                             "U", "T", "M", "_", "m", "=", "1">>)
    /\ rawUrl.hash # Undefined
    /\ normalized[1] = [scheme |-> "https", host |-> <<"a", ".", "c">>,
                        path |-> <<"/", "a", "/", "a">>,
                        query |-> Some(<<"K", "=", "x", "+", "+">>),
                        hash |-> Undefined, pad |-> FALSE]
    /\ normalized[2] = normalized[1]

\* A key that starts with "utm_" in any letter case.
StartsWithUtm(key) ==
    /\ Len(key) >= 4
    /\ key[1] \in {"u", "U"}
    /\ key[2] \in {"t", "T"}
    /\ key[3] \in {"m", "M"}
    /\ key[4] = "_"

\* C6: the parameters of normalize(x) are the parameters of x whose key does
\* not start with "utm_" (in any letter case), with their values, in their
\* original order.
C6_OnlyUtmRemoved ==
    (Parseable(rawUrl) /\ Len(normalized) >= 1) =>
        SearchParamsEntries(normalized[1].query)
            = SelectSeq(SearchParamsEntries(rawUrl.query), LAMBDA e : ~StartsWithUtm(e[1]))

\* utm_s=x&k=1 was normalized to k=1.
C6_Witness ==
    /\ Len(normalized) >= 1
    /\ rawUrl.scheme = "https"
    /\ rawUrl.query = Some(<<"u", "t", "m", "_", "s", "=", "x", "&", "k", "=", "1">>)
    /\ normalized[1].query = Some(<<"k", "=", "1">>)

-----------------------------------------------------------------------------
(* Sitemap walker                                                          *)

\* /sitemap.xml is a sitemap index whose only <loc> is /sitemap.xml itself.
SelfReferencing == family = "graph" /\ web[1] = Xml(IndexContent(<<1>>))

\* C7: on sitemap graphs with cycles the walk and analyzeDomainSitemaps
\* return: every run reaches its end; within one walk no URL is requested a
\* second time, the repeated URL being cut off by the visited set; and the
\* index that names only itself is requested once by the walk and counts 0.
C7_WalkTerminates ==
    /\ <>(smPc = "done")
    /\ [](\A u \in Urls : walkGets[u] <= 1)
    /\ [](SelfReferencing /\ smPc = "done"
            => walkGets[1] = 1 /\ smResults.totalUrls = 0 /\ stack = <<>>)

\* The self-referencing index has been walked and its run has returned.
C7_Witness ==
    /\ SelfReferencing
    /\ smPc = "done"
    /\ visitedUrls = {1}
    /\ walkGets[1] = 1

\* The site is a chain of sitemap indexes nested more than 10 levels deep.
DeepChain == family = "chain" /\ \E len \in 11..ChainDepth : web = ChainWeb(len)

\* C8: in a chain of sitemap indexes nested deeper than 10 levels (root is
\* level 1) no document below level 10 is ever requested, and when the run
\* has returned the walk has requested each of levels 1 to 10, has counted
\* nothing from below level 10 (the total is 0) and has raised no error.
C8_DepthBound ==
    DeepChain =>
        /\ \A u \in Urls : u > 10 => gets[u] = 0
        /\ smPc = "done" =>
             /\ \A u \in 1..10 : walkGets[u] = 1
             /\ smResults.totalUrls = 0
             /\ smResults.error = "null"
             /\ stack = <<>>

\* The chain nested 15 levels deep has been walked down to level 10.
C8_Witness ==
    /\ family = "chain"
    /\ web = ChainWeb(15)
    /\ smPc = "done"
    /\ walkGets[10] = 1
    /\ smResults.sitemapType = "sitemap_index"

\* C9: during one analyzeDomainSitemaps run no sitemap URL is requested with
\* GET more than once.
C9_NoUrlRequestedTwice == \A u \in Urls : gets[u] <= 1

-----------------------------------------------------------------------------
(* Domain aggregator                                                       *)

\* The percentage and average fields of a domain analysis.
RatioFields ==
    {"pages_with_h1_percentage", "pages_with_meta_description_percentage",
     "pages_with_errors_percentage", "pages_with_successful_status_percentage",
     "pages_with_redirect_status_percentage", "pages_with_error_status_percentage",
     "pages_with_opengraph_percentage", "pages_with_opengraph_title_percentage",
     "pages_with_opengraph_description_percentage", "pages_with_opengraph_image_percentage",
     "average_title_length", "average_description_length", "average_words_per_page",
     "average_internal_links"}

\* C10: on an empty page list the domain aggregator returns 0 for the average
\* score and for every percentage and average field; no field is NaN.
C10_EmptyListAllZero ==
    mainPc = "done" /\ results = <<>> =>
        /\ domainAnalysis.seo_score = Num(0)
        /\ \A f \in RatioFields : domainAnalysis[f] = Num(0)

-----------------------------------------------------------------------------
(* Link classifier, checked under SpecLinks                                *)

Analysed == linksAnalysis # NotAnalysed /\ ParseUrl(baseUrl) # Undefined

\* The URLs of the links listed as internal or external.
ListedUrls(list) == {list[i].url : i \in 1..Len(list)}

\* The hrefs of the page that resolve.
Resolvable == {i \in 1..Len(anchors) : ResolveHref(anchors[i], baseUrl) # Undefined}

Resolved(i) == ResolveHref(anchors[i], baseUrl)[1]

\* The href resolves to the base page itself, with a fragment.
SamePageFragment(i) ==
    /\ anchors[i].hash # Undefined
    /\ [Resolved(i) EXCEPT !.fragment = Undefined] = ParseUrl(baseUrl)[1]

ScenarioBase == Href(SameHost, <<"/">>, Undefined)

ExternalAnchors ==
    {i \in Resolvable :
        /\ anchors[i] # EmptyString
        /\ Resolved(i).hostname # ParseUrl(baseUrl)[1].hostname
        /\ ~IsSocialMedia(Resolved(i).hostname)
        /\ ~SamePageFragment(i)
        /\ anchors[i].hash # Some(<<>>)}

\* C12: a link is discarded as a same-page fragment only when it resolves to
\* the base page plus a hash or ends in a bare "#"; every other resolvable
\* link to a host that is neither the base host nor a social domain is counted
\* exactly once as external, fragment or not.
C12_ExternalCountedOnce ==
    Analysed =>
        /\ linksAnalysis.externalLinksCount = Cardinality(ExternalAnchors)
        /\ \A i \in ExternalAnchors :
             SerializeUrl(Resolved(i)) \in ListedUrls(linksAnalysis.externalLinks)

-----------------------------------------------------------------------------
(* Sitemap error handling, checked under SpecSitemap                       *)

\* The probe of /sitemap.xml failed: the request was rejected (network error
\* or error status), or the response is not an XML sitemap.
ProbeFailed(r) ==
    \/ r.kind = "error"
    \/ r.status # 200
    \/ ~IsXmlOrText(r.contentType)
    \/ ~(IsIndexContent(r.content) \/ IsUrlsetContent(r.content))

\* C13: whenever the probe of {domain}/sitemap.xml fails at the top level (a
\* network error, an error status, or a successful response that is not an
\* XML sitemap), analyzeDomainSitemaps goes on to fetch {domain}/robots.txt.
C13_FailedProbeFallsBackToRobots ==
    [][(smPc = "get" /\ smPc' # "get" /\ ProbeFailed(web'[currentUrl]))
          => smPc' = "robots"]_vars

\* C14: a finished analysis that found a sitemap, directly or through
\* robots.txt, reports no error.
C14_NoErrorWhenSitemapFound ==
    (smPc = "done" /\ smResults.hasSitemap) => smResults.error = "null"

\* What a sitemap that was requested during the walk adds to the total: the
\* size of a urlset that could be fetched, nothing for anything else.
UrlsFetched(u) ==
    IF /\ u \in visitedUrls
       /\ web[u] # Unknown
       /\ web[u].kind = "response"
       /\ web[u].status = 200
       /\ IsXmlOrText(web[u].contentType)
       /\ ~IsIndexContent(web[u].content)
       /\ IsUrlsetContent(web[u].content)
    THEN countUrlsInSitemap(web[u].content)
    ELSE 0

\* The walk from /sitemap.xml has returned.
IndexWalked == smPc = "done" /\ smResults.sitemapType = "sitemap_index"

\* C15: a nested sitemap that cannot be fetched contributes 0 and stops
\* nothing: the walk returns the sum of the sizes of the sitemaps that could
\* be fetched, and no error reaches analyzeDomainSitemaps.
C15_NestedFailureSwallowed ==
    IndexWalked =>
        /\ smResults.totalUrls = Sum([u \in Urls |-> UrlsFetched(u)])
        /\ smResults.error = "null"

\* An index names a sitemap that fails and then one that is fetched and counted.
C15_Witness ==
    /\ IndexWalked
    /\ family = "graph"
    /\ web[1] = Xml(IndexContent(<<2, 3>>))
    /\ web[2] = Failure
    /\ {2, 3} \subseteq visitedUrls
    /\ smResults.totalUrls = UrlsFetched(3)
    /\ smResults.totalUrls > 0

-----------------------------------------------------------------------------
(* Scorer sections, checked under SpecScorer                               *)

\* C16: a page whose meta robots directive contains "noindex" scores at
\* most 25.
C16_NoindexCappedAt25 ==
    (calls > 0 /\ IncludesLower(seoData.metaRobots, "noindex"))
        => scoreResult.seo_page_score <= 25

\* What the word-count rule of the content section added to the score: the
\* change over the section, without the 2 points of the emphasis rule.
WordCountDelta ==
    LET labels == {scoreResult.issues[i] : i \in 1..Len(scoreResult.issues)}
    IN  (scoreSteps[5] - scoreSteps[4])
            + (IF "no emphasis tags" \in labels THEN 2 ELSE 0)

\* C17: the word-count rule looks at the content-only word count alone:
\* below 150 it subtracts 8, from 150 to 299 it subtracts 5, from 800 on it
\* adds 2, whatever the other word counts of the page are.
C17_ContentOnlyCountDecides ==
    calls > 0 =>
        LET c == seoData.wordcountcontentonly
        IN  WordCountDelta = (IF c < 150 THEN -8
                              ELSE IF c < 300 THEN -5
                              ELSE IF c >= 800 THEN 2
                              ELSE 0)

\* The labels of the issues the last call reported.
IssueLabels == {scoreResult.issues[i] : i \in 1..Len(scoreResult.issues)}

\* C18: with a precomputed heading score h the heading section adds exactly
\* floor(h * 0.2) - 20, reports "poor heading structure" exactly when h < 50
\* and applies no H1 rule of the fallback; the fallback runs only when the
\* record has no heading score.
C18_HeadingScoreScaled ==
    calls > 0 =>
        LET delta == scoreSteps[3] - scoreSteps[2]
        IN  IF seoData.headingScore # Undefined
            THEN LET h == seoData.headingScore[1]
                 IN  /\ delta = ((h * 2) \div 10) - 20
                     /\ h = 100 => delta = 0
                     /\ h = 0 => delta = -20
                     /\ "poor heading structure" \in IssueLabels <=> h < 50
                     /\ IssueLabels \cap {"missing H1", "multiple H1 tags"} = {}
            ELSE /\ "poor heading structure" \notin IssueLabels
                 /\ "missing H1" \in IssueLabels <=> OrNum(seoData.h1Count, seoData.h1) = 0
                 /\ "multiple H1 tags" \in IssueLabels <=> OrNum(seoData.h1Count, seoData.h1) > 1

\* A record without H1 and with heading score 49: the section subtracts 11
\* and only the heading score is reported.
C18_Witness ==
    /\ calls > 0
    /\ seoData.headingScore = Some(49)
    /\ seoData.h1Count = 0
    /\ seoData.h1 = 0
    /\ scoreSteps[3] - scoreSteps[2] = -11
    /\ "poor heading structure" \in IssueLabels
    /\ "missing H1" \notin IssueLabels

-----------------------------------------------------------------------------
(* The crawl loop, checked under SpecMain                                  *)

\* The crawl loop has ended.
CrawlEnded == mainPc \in {"aggregate", "done"} /\ input.startUrls # <<>>

\* C19: at the end of a run the page results, analysed pages and error
\* records together, are at most maxRequestsPerCrawl.
C19_ResultsWithinBudget ==
    CrawlEnded => Len(results) <= input.maxRequestsPerCrawl

\* C20: no two page results of a run have the same normalized URL.
C20_NoPageTwice ==
    \A i, j \in 1..Len(results) :
        i # j => normalize(results[i].url) # normalize(results[j].url)

-----------------------------------------------------------------------------
(* The domain summary, checked under SpecMain                              *)

\* The summary of the run has been computed.
Summarised == mainPc = "done" /\ domainAnalysis # NoAnalysis

\* The sum of the scores of the page results that carry one.
PageScoreSum ==
    Sum([i \in 1..Len(results) |->
            IF results[i].scoreData = Undefined THEN 0
            ELSE results[i].scoreData[1].seo_page_score])

\* C21: the domain average score is the sum of the per-page scores divided by
\* the number of pages the same summary reports as total_pages_analyzed, and
\* 0 when there are no pages.
C21_AverageOverTotalPages ==
    Summarised =>
        domainAnalysis.seo_score =
            IF domainAnalysis.total_pages_analyzed = 0 THEN Num(0)
            ELSE RoundRatio(PageScoreSum, domainAnalysis.total_pages_analyzed, 100)

-----------------------------------------------------------------------------
(* Errors of the crawl loop, checked under SpecMain                        *)

\* The status an error record is to carry for a rejected request.
MappedStatus(error) ==
    CASE error.response # 0                         -> error.response
      [] error.code \in {"ENOTFOUND", "ECONNREFUSED"} -> 404
      [] error.code = "ETIMEDOUT"                   -> 408
      [] error.code = "ECONNRESET"                  -> 503
      [] OTHER                                      -> 500

\* The queued URLs not yet visited, by position.
Unvisited == {i \in 1..Len(urlsToProcess) : urlsToProcess[i] \notin visitedPages}

-----------------------------------------------------------------------------
(* Properties of analyzePage, checked under SpecPage                       *)

\* analyzePage has returned.
PageAnalysed == pageData # NotAnalysedPage

\* What the image section of the scorer takes off for the page.
ImagePenalty ==
    -ImagesSection([score |-> 0, issues |-> <<>>],
                   [imagesWithoutAlt |-> pageData.imagesWithoutAlt]).score

\* C23: with includeImages = false analyzePage reports no images and
\* imagesWithoutAlt = 0, so the scorer applies no image penalty.
C23_NoImagesWhenExcluded ==
    (PageAnalysed /\ ~pageArgs.includeImages) =>
        /\ pageData.images = <<>>
        /\ pageData.imagesWithoutAlt = 0
        /\ ImagePenalty = 0

\* C26: for every level 1..6 the reported count is the length of the reported
\* array, no entry of the array is empty, and the count is the number of
\* headings of that level in headingStructure.
C26_HeadingCountsCoverTextOnly ==
    PageAnalysed =>
        \A level \in 1..6 :
            /\ pageData.hCount[level] = Len(pageData.h[level])
            /\ \A i \in 1..Len(pageData.h[level]) : pageData.h[level][i] # <<>>
            /\ pageData.hCount[level] =
                 Cardinality({i \in 1..Len(pageData.headingStructure) :
                                 pageData.headingStructure[i].level = level})

\* The hierarchy component as described: 5 off for every heading more than
\* one level below the heading before it, 2 off for every heading that is the
\* third or later of a run of one level, then the bonus of 5 per level of the
\* deepest heading up to 20, the floor at 0 and the cap at 30.
DescribedHierarchy(headings) ==
    LET n == Len(headings)
        skips == Cardinality({i \in 2..n : headings[i].level > headings[i - 1].level + 1})
        beyondTwo == Cardinality({i \in 3..n :
                          /\ headings[i].level = headings[i - 1].level
                          /\ headings[i].level = headings[i - 2].level})
        deepest == IF n = 0 THEN 0
                   ELSE CHOOSE l \in 1..6 :
                          /\ \E i \in 1..n : headings[i].level = l
                          /\ \A i \in 1..n : headings[i].level <= l
    IN  Min(Max(Min(deepest * 5, 20) - 5 * skips - 2 * beyondTwo, 0), 30)

\* C27: in the hierarchy component every heading that extends a run of
\* same-level headings beyond two costs 2 (a run of three costs 2, a run of
\* four costs 4) and every skipped level costs 5, before the bonus, the floor
\* at 0 and the cap at 30.
C27_RunsBeyondTwoPenalised ==
    PageAnalysed =>
        HierarchyScore(pageData.headingStructure)
            = DescribedHierarchy(pageData.headingStructure)

\* C30: the heading score analyzePage reports is at most 90, the hierarchy
\* component being at most 20, so the heading section of the scorer adds at
\* most -2 for a page analyzePage produced.
C30_HeadingScoreAtMost90 ==
    PageAnalysed =>
        /\ pageData.headingScore \in 0..90
        /\ HierarchyScore(pageData.headingStructure) <= 20
        /\ HeadingSection([score |-> 0, issues |-> <<>>],
                          [headingScore |-> Some(pageData.headingScore)]).score <= -2

\* The page of seven ordered headings under a title sharing a word with them
\* scores 90, and the scorer's heading section adds -2.
C30_Witness ==
    /\ PageAnalysed
    /\ docHeadings = OrderedPage
    /\ pageData.headingScore = 90
    /\ HeadingSection([score |-> 0, issues |-> <<>>],
                      [headingScore |-> Some(pageData.headingScore)]).score = -2

-----------------------------------------------------------------------------
(* Sitemap sizes and result shape, checked under SpecSitemap               *)

\* The <url> entries of a document.
UrlEntries(content) == Cardinality({i \in 1..Len(content) : content[i].name = "url"})

\* The <url> entries of a urlset that was fetched during the walk.
UrlEntriesFetched(u) == IF UrlsFetched(u) = 0 THEN 0 ELSE UrlEntries(web[u].content)

\* C24: a top-level urlset with n <url> entries is reported with sitemapType
\* "urlset", sitemapSize = n and totalUrls = n, and a urlset reached during
\* the walk adds exactly its number of <url> entries to the total.
C24_UrlsetCountsItsEntries ==
    /\ (smPc = "done" /\ smResults.sitemapType = "urlset") =>
          /\ smResults.sitemapSize = UrlEntries(web[currentUrl].content)
          /\ smResults.totalUrls = UrlEntries(web[currentUrl].content)
    /\ IndexWalked =>
          smResults.totalUrls = Sum([u \in Urls |-> UrlEntriesFetched(u)])

\* C29: in every result of analyzeDomainSitemaps hasSitemap = true comes with
\* a sitemapType of urlset, sitemap_index or robots_txt_reference, and
\* hasSitemap = false with sitemapType null, sitemapSize 0, totalUrls 0 and no
\* sitemapUrls.
C29_TypeKnownIffSitemap ==
    (smPc = "done" /\ smResults.sitemapUrl # 0) =>
        IF smResults.hasSitemap
        THEN smResults.sitemapType \in {"urlset", "sitemap_index", "robots_txt_reference"}
        ELSE /\ smResults.sitemapType = "null"
             /\ smResults.sitemapSize = 0
             /\ smResults.totalUrls = 0
             /\ smResults.sitemapUrls = <<>>

-----------------------------------------------------------------------------
(* followRedirects, checked under FairSpecSitemap                          *)

\* C28: followRedirects returns: it sends at most 5 HEAD requests and follows
\* at most 5 redirects; a redirect with a location moves to that URL and,
\* when it is the 5th, returns it; any other answer (no redirect, a redirect
\* without location, a rejected request) returns the current URL; what is
\* returned is the last URL reached.
C28_FollowRedirectsReturns ==
    /\ [](heads <= 5 /\ redirectCount <= 5 /\ redirectCount <= heads)
    /\ (smPc = "head") ~> (smPc = "get")
    /\ [][smPc = "head" =>
            LET r == headResp'[currentUrl]
            IN  /\ heads' = heads + 1
                /\ IF r.kind = "redirect" /\ r.to # 0
                   THEN /\ currentUrl' = r.to
                        /\ redirectCount' = redirectCount + 1
                        /\ smPc' = "get" <=> redirectCount' = 5
                   ELSE /\ currentUrl' = currentUrl
                        /\ redirectCount' = redirectCount
                        /\ smPc' = "get"
                /\ smPc' \in {"head", "get"}
                /\ smPc' = "get" => smResults'.sitemapUrl = currentUrl'
       ]_vars

\* Two URLs redirect to each other: the 5th redirect has been followed and
\* followRedirects has returned.
C28_Witness ==
    /\ family = "redirect"
    /\ smPc = "get"
    /\ heads = 5
    /\ redirectCount = 5
    /\ headResp[1] = HeadRedirect(2)
    /\ headResp[2] = HeadRedirect(1)
    /\ smResults.sitemapUrl = currentUrl

-----------------------------------------------------------------------------
(* checkLinkStatuses, checked under SpecProbes                             *)

\* The positions whose link record a step changes.
Written == {k \in 1..Len(probeLinks) : probeLinks'[k] # probeLinks[k]}

\* The positions of the batches before the current one.
EarlierBatches == 1..Min(batchStart, Len(probeLinks))

\* C25: in checkLinkStatuses at most 5 probes are in flight at any moment; the
\* probes of a batch are in flight only when every link of the batches before
\* it has its status; a probe that settles writes its own link record and no
\* other, and the start of a batch writes only links of that batch; when the
\* call has returned every link of the list has a statusCode that is not null.
C25_ProbesInBatchesOfFive ==
    /\ [](/\ Cardinality(inFlight) <= 5
          /\ inFlight \subseteq Batch(probeLinks, batchStart)
          /\ \A k \in EarlierBatches :
                 probeLinks[k].statusCode # Undefined /\ k \notin inFlight
          /\ probePc = "done" =>
                 /\ inFlight = {}
                 /\ \A k \in 1..Len(probeLinks) : probeLinks[k].statusCode # Undefined)
    /\ [][/\ Len(probeLinks') = Len(probeLinks)
          /\ \A k \in Written : probeLinks'[k].url = probeLinks[k].url
          /\ IF probePc = "all" /\ inFlight # {}
             THEN Written = inFlight \ inFlight' /\ Cardinality(Written) = 1
             ELSE /\ Written \subseteq Batch(probeLinks, batchStart')
                  /\ Written \cap inFlight' = {}]_vars

\* The second batch has a request pending, the five probes of the first batch
\* having settled, and a link of the second batch was written at once.
C25_Witness ==
    /\ probePc = "all"
    /\ batchStart = 5
    /\ 8 \in inFlight
    /\ \A k \in 1..5 : probeLinks[k].statusCode # Undefined
    /\ probeLinks[6].statusCode = Some(200)
    /\ probeLinks[7].statusCode = Some(400)

=============================================================================
